---- MODULE Spec2Model ----
(***************************************************************************)
(* Model of the hand-rolled Modbus RTU master (Master_5.py) and slave      *)
(* (Slave_5.py): the CRC16 engine, the frame codec, one request/response   *)
(* exchange over the serial link, the slave's dispatcher and foreground    *)
(* threads on the lock-protected register store, and the master's          *)
(* transaction lock.                                                       *)
(***************************************************************************)
EXTENDS Integers, Sequences, FiniteSets, TLC

VARIABLES
    COILS,      \* Slave_5.COILS, a function 0..15 -> {0,1}
    HOLDING,    \* Slave_5.HOLDING, a function 0..15 -> Nat
    LOCK,       \* Slave_5.LOCK: TRUE while some thread is inside "with LOCK"
    \* one exchange seen from both ends
    phase,      \* position of the single exchange: idle, sent, handled, done
    call,       \* the master operation in progress: [op, address, arg]
    req,        \* the 8 bytes the slave's dispatcher extracts as one frame
    resp,       \* outcome of handle_request: bytes, None or a raised error
    tx,         \* the bytes serial_worker wrote back to the serial device
    ret,        \* what the master operation returned to its caller
    \* serial_worker (the dispatcher thread)
    wpc,        \* its position
    line,       \* bytes received by the serial device and not yet read
    narrived,   \* number of requests that have arrived on the line
    arrivals,   \* what has arrived on the line, one record per arrival, in order
    handled,    \* the candidate frames taken from the buffer, in order
    buffer,     \* the accumulation buffer
    wframe,     \* the candidate frame being handled
    wout,       \* the outcome of handle_request for it
    written,    \* the responses written by ser.write, in order
    sdev,       \* serial_worker's ser: "open", or "closed" after ser.close()
    \* SlaveUI (the foreground thread)
    upc,        \* its position
    uval,       \* the argument of the running set_coil
    coil0,      \* ui_loop's local coil0
    ucount,     \* SlaveUI._count
    last_tick,  \* SlaveUI._last_tick
    now,        \* time.time(), in seconds
    stop_event, \* the threading.Event of main(): TRUE once set
    running,    \* FALSE once main() has returned and the process has ended
    \* one ModbusMaster and the threads that call its operations
    ser,        \* ModbusMaster.ser: "None" or "open"
    mlock,      \* ModbusMaster.lock: TRUE while a caller is inside "with self.lock"
    tpc,        \* position of every caller in its operation
    tcall,      \* the operation every caller runs: [op, address, arg]
    tresp,      \* _transact's local resp of every caller
    tret,       \* what the operation of every caller returned, once it has
    ncalls,     \* number of operations called so far
    rxbuf,      \* input buffer of the master's serial handle
    pending,    \* bytes the slave has written that have not arrived yet
    \* a GUI master (MasterApp of Master_3.py, MasterWindow of Master.py)
    client,     \* self.client: "None" or "obj"
    connected,  \* what _set_connected last showed: TRUE enables the buttons
    applock,    \* the client lock: 0 when free, else the thread holding it
    inop,       \* the threads that are inside a call on the client object
    stop_reader,\* the stop event of the reader thread: TRUE once set
    data_q,     \* the queue.Queue(maxsize=1), oldest item first
    rdpc,       \* position of every reader thread
    rdval,      \* the result every reader thread holds in its locals
    apc,        \* position of the Tk thread
    wkpc,       \* position of the thread a button started
    nreads,     \* number of reads the slave has answered
    lastput,    \* the item of the latest put_nowait call
    taken,      \* the item the latest poll took from the queue
    failures    \* MasterWindow._failures

storeVars == <<COILS, HOLDING>>
exchVars == <<phase, call, req, resp, tx, ret>>
workerVars == <<wpc, line, narrived, arrivals, handled, buffer, wframe, wout,
                written, sdev>>
uiVars == <<upc, uval, coil0, ucount, last_tick, now, stop_event, running>>
masterVars == <<ser, mlock, tpc, tcall, tresp, tret, ncalls, rxbuf, pending>>
appVars == <<client, connected, applock, inop, stop_reader, data_q, rdpc, rdval,
             apc, wkpc, nreads, lastput, taken, failures>>
vars == <<COILS, HOLDING, LOCK, exchVars, workerVars, uiVars, masterVars, appVars>>

-----------------------------------------------------------------------------
(* Program constants *)

UNIT_ID == 1
DEFAULT_SLAVE_ID == 1
NumCoils == 16
NumHolding == 16
Poly == 40961          \* 0xA001
CrcInit == 65535       \* 0xFFFF
CoilOn == 65280        \* 0xFF00
CoilOff == 0           \* 0x0000
ExcBit == 128          \* 0x80
ReconnectAfter == 5
IllegalFunction == 1   \* exception code 0x01
ReqLen == 8
MinRespLen == 5
WriteRespLen == 8

ReadSize == 64         \* ser.read(64)
OneSecond == 1         \* the 1.0 of "time.time() - self._last_tick >= 1.0"
MasterReadSize == 256  \* ser.read(256)

(* Bounds of the model *)

MaxAddress == 15       \* addresses the master is called with: 0..MaxAddress
MaxCount == 16         \* quantities the master is called with: 0..MaxCount
MaxRequests == 1       \* requests that arrive at the slave in one run
MaxTime == 2           \* seconds of clock the run covers
MaxCallers == 2        \* threads that call operations of one ModbusMaster
MaxCalls == 2          \* operations called on the master in one run
MaxReaders == 2        \* reader threads a MasterApp starts in one run
MaxReads == 2          \* reads the slave answers with a register value
MaxCrcLen == 3         \* length of the byte strings given to the CRC engine
MaxFailures == 6       \* consecutive reads of MasterWindow that fail

-----------------------------------------------------------------------------
(* Integer helpers for Python's bit operators *)

RECURSIVE XorBits(_, _)
XorBits(a, b) ==
    IF a = 0 THEN b
    ELSE IF b = 0 THEN a
    ELSE ((a + b) % 2) + 2 * XorBits(a \div 2, b \div 2)

\* a ^ b of two bytes, tabulated once
XorByte == [a \in 0..255 |-> [b \in 0..255 |-> XorBits(a, b)]]

\* a ^ b of two 16-bit values
Xor(a, b) ==
    256 * XorByte[a \div 256][b \div 256] + XorByte[a % 256][b % 256]

RECURSIVE Pow2(_)
Pow2(n) == IF n = 0 THEN 1 ELSE 2 * Pow2(n - 1)

BitAt(x, i) == (x \div Pow2(i)) % 2

\* x | (1 << i) of a byte
OrBit == [x \in 0..255, i \in 0..7 |-> IF BitAt(x, i) = 1 THEN x ELSE x + Pow2(i)]

Min(a, b) == IF a < b THEN a ELSE b

CeilDiv8(n) == (n + 7) \div 8

\* Python slice arr[a:b] of a list stored as a function 0..len-1
Slice(arr, len, a, b) ==
    LET lo == Min(a, len)
        hi == Min(b, len)
    IN  IF hi <= lo THEN << >> ELSE [i \in 1..(hi - lo) |-> arr[lo + i - 1]]

\* Python slice of a byte string (1-indexed sequence), s[a:b]
BSlice(s, a, b) ==
    LET lo == Min(a, Len(s))
        hi == Min(b, Len(s))
    IN  IF hi <= lo THEN << >> ELSE SubSeq(s, lo + 1, hi)

\* struct.pack('>H', v) and struct.unpack('>H', b)
PackBE(v) == << v \div 256, v % 256 >>
UnpackBE(b) == b[1] * 256 + b[2]
PackLEHighFirst(v) == << v \div 256, v % 256 >>

\* struct.pack('<H', v) and struct.unpack('<H', b)
PackLE(v) == << v % 256, v \div 256 >>
UnpackLE(b) == b[1] + 256 * b[2]

-----------------------------------------------------------------------------
(* CRC engine: the slave's copy (Slave_5.py) and the master's (Master_5.py). *)
(* step is one pass of the inner loop (lsb = crc & 1; crc >>= 1; if lsb:    *)
(* crc ^= 0xA001), byte is "crc ^= b" followed by the eight passes, acc[i]  *)
(* is the accumulator after the first i bytes of data, run is the whole     *)
(* loop over one value of data.                                             *)

slave_crc16_modbus(data) ==
    LET step[crc \in 0..65535] ==
            IF crc % 2 = 1 THEN Xor(crc \div 2, Poly) ELSE crc \div 2
        byte[crc \in 0..65535, b \in 0..255] ==
            step[step[step[step[step[step[step[step[Xor(crc, b)]]]]]]]]
        run[d \in {data}] ==
            LET acc[i \in 0..Len(d)] ==
                    IF i = 0 THEN CrcInit ELSE byte[acc[i - 1], d[i]]
            IN  acc[Len(d)] % 65536
    IN  run[data]

slave_append_crc(frame) == frame \o PackLE(slave_crc16_modbus(frame))

master_crc16_modbus(data) ==
    LET step[crc \in 0..65535] ==
            IF crc % 2 = 1 THEN Xor(crc \div 2, Poly) ELSE crc \div 2
        byte[crc \in 0..65535, b \in 0..255] ==
            step[step[step[step[step[step[step[step[Xor(crc, b)]]]]]]]]
        run[d \in {data}] ==
            LET acc[i \in 0..Len(d)] ==
                    IF i = 0 THEN CrcInit ELSE byte[acc[i - 1], d[i]]
            IN  acc[Len(d)] % 65536
    IN  run[data]

master_append_crc(frame) == frame \o PackLE(master_crc16_modbus(frame))

SlaveCrcOkLowByteOnly(x) ==
    slave_crc16_modbus(BSlice(x, 0, Len(x) - 2)) % 256 = x[Len(x) - 1]

\* handle_request: crc16_modbus(req[:-2]) == struct.unpack('<H', req[-2:])[0]
SlaveCrcOk(x) ==
    slave_crc16_modbus(BSlice(x, 0, Len(x) - 2))
        = UnpackLE(BSlice(x, Len(x) - 2, Len(x)))

\* _transact: crc16_modbus(body) == struct.unpack('<H', recv_crc)[0]
MasterCrcOk(x) ==
    master_crc16_modbus(BSlice(x, 0, Len(x) - 2))
        = UnpackLE(BSlice(x, Len(x) - 2, Len(x)))

-----------------------------------------------------------------------------
(* Results of the slave's handle_request and of the master's operations *)

None == [kind |-> "None", bytes |-> << >>]
Bytes(b) == [kind |-> "bytes", bytes |-> b]
Raised == [kind |-> "raise", bytes |-> << >>]

RetNone == [kind |-> "None", list |-> << >>]
RetBool(b) == [kind |-> IF b THEN "True" ELSE "False", list |-> << >>]
RetList(l) == [kind |-> "list", list |-> l]

NoCall == [op |-> "none", address |-> 0, arg |-> 0]

-----------------------------------------------------------------------------
(* Slave side of the frame codec (Slave_5.py) *)

\* the byte of index j of pack_coils' output: bit (i mod 8) of byte
\* (i div 8) is set for every set element i of the slice
RECURSIVE PackByteHighFirst(_, _, _)
PackByteHighFirst(bits, j, i) ==
    IF i > Len(bits) \/ i > 8 * j + 8 THEN 0
    ELSE LET rest == PackByteHighFirst(bits, j, i + 1)
         IN  IF bits[i] # 0 THEN OrBit[rest, 7 - ((i - 1) % 8)] ELSE rest

RECURSIVE PackByte(_, _, _)
PackByte(bits, j, i) ==
    IF i > Len(bits) \/ i > 8 * j + 8 THEN 0
    ELSE LET rest == PackByte(bits, j, i + 1)
         IN  IF bits[i] # 0 THEN OrBit[rest, (i - 1) % 8] ELSE rest

pack_coils(coils, start, count) ==
    LET bits == Slice(coils, NumCoils, start, start + count)
        byte_count == CeilDiv8(count)
    IN  [j \in 1..byte_count |-> PackByte(bits, j - 1, 8 * (j - 1) + 1)]

CoilValueAnyNonZero(value) == IF value # 0 THEN 1 ELSE 0

CoilValue(value) == IF value = CoilOn THEN 1 ELSE 0

WriteCoilStoreAndCoilZero(coils, coil_addr, value) ==
    IF 0 <= coil_addr /\ coil_addr < NumCoils
    THEN [coils EXCEPT ![coil_addr] = CoilValue(value), ![0] = CoilValue(value)]
    ELSE coils

WriteCoilStore(coils, coil_addr, value) ==
    IF 0 <= coil_addr /\ coil_addr < NumCoils
    THEN [coils EXCEPT ![coil_addr] = CoilValue(value)]
    ELSE coils

\* func == 0x01: data_bytes is bound only when the range fits, and the
\* following len(data_bytes) raises UnboundLocalError when it is not
ReadCoilsResponse(coils, start, qty) ==
    IF start + qty <= NumCoils
    THEN LET data_bytes == pack_coils(coils, start, qty)
         IN  Bytes(slave_append_crc(<<UNIT_ID, 1, Len(data_bytes)>> \o data_bytes))
    ELSE Raised

RECURSIVE JoinWordsLittleEndian(_, _)
JoinWordsLittleEndian(regs, i) ==
    IF i > Len(regs) THEN << >>
    ELSE PackLE(regs[i] % 65536) \o JoinWordsLittleEndian(regs, i + 1)

RECURSIVE JoinWords(_, _)
JoinWords(regs, i) ==
    IF i > Len(regs) THEN << >>
    ELSE PackBE(regs[i] % 65536) \o JoinWords(regs, i + 1)

ReadHoldingResponse(holding, start, qty) ==
    LET regs == Slice(holding, NumHolding, start, start + qty)
        data == JoinWords(regs, 1)
    IN  Bytes(slave_append_crc(<<UNIT_ID, 3, Len(data)>> \o data))

ExceptionFuncNoFlag(func) == func

ExceptionFunc(func) == IF func >= ExcBit THEN func ELSE func + ExcBit

ExceptionResponse(func) ==
    Bytes(slave_append_crc(<<UNIT_ID, ExceptionFunc(func), IllegalFunction>>))

AddressMatchesAny(addr) == TRUE

AddressMatches(addr) == addr = UNIT_ID

\* the three early returns of handle_request
RequestAccepted(r) ==
    /\ Len(r) >= ReqLen
    /\ AddressMatches(r[1])
    /\ SlaveCrcOk(r)

\* the request reaches one of the three "with LOCK" blocks
TakesLock(r) == RequestAccepted(r) /\ r[2] \in {5, 1, 3} /\ Len(r) = ReqLen

\* handle_request(req): the returned value (or raised error) and the coils
\* after the call; HOLDING is never assigned by it
handle_request(r, coils, holding) ==
    IF ~RequestAccepted(r) THEN [out |-> None, coils |-> coils]
    ELSE LET func == r[2]
             w1 == UnpackBE(BSlice(r, 2, 4))
             w2 == UnpackBE(BSlice(r, 4, 6))
         IN  IF func = 5 /\ Len(r) = ReqLen
             THEN [out |-> Bytes(slave_append_crc(SubSeq(r, 1, Len(r) - 2))),
                   coils |-> WriteCoilStore(coils, w1, w2)]
             ELSE IF func = 1 /\ Len(r) = ReqLen
             THEN [out |-> ReadCoilsResponse(coils, w1, w2), coils |-> coils]
             ELSE IF func = 3 /\ Len(r) = ReqLen
             THEN [out |-> ReadHoldingResponse(holding, w1, w2), coils |-> coils]
             ELSE [out |-> ExceptionResponse(func), coils |-> coils]

-----------------------------------------------------------------------------
(* Master side of the frame codec (Master_5.py) *)

WriteCoilFrameOneForOn(slave_id, address, value) ==
    <<slave_id, 5>> \o PackBE(address) \o PackBE(IF value THEN 1 ELSE 0)

\* write_coil: struct.pack('>B B H H', self.slave_id, 0x05, address, val_word)
WriteCoilFrame(slave_id, address, value) ==
    <<slave_id, 5>> \o PackBE(address) \o PackBE(IF value THEN CoilOn ELSE CoilOff)

ReadCoilsFrame(slave_id, address, count) ==
    <<slave_id, 1>> \o PackBE(address) \o PackBE(count)

ReadHoldingFrame(slave_id, address, count) ==
    <<slave_id, 3>> \o PackBE(address) \o PackBE(count)

\* the validation at the end of _transact: the received bytes, or None
TransactCheck(rx, expected_min_len) ==
    IF Len(rx) < expected_min_len THEN None
    ELSE IF ~MasterCrcOk(rx) THEN None
    ELSE Bytes(rx)

\* bool(resp) / "not resp" of a bytes-or-None value
Truthy(r) == r.kind = "bytes" /\ Len(r.bytes) > 0

IsException(rx) == rx[2] >= ExcBit

write_coil_return(rx) == RetBool(Truthy(TransactCheck(rx, WriteRespLen)))

\* all bits of the data bytes, low bit first
AllBits(data_bytes) ==
    [k \in 1..(8 * Len(data_bytes)) |->
        BitAt(data_bytes[((k - 1) \div 8) + 1], (k - 1) % 8)]

\* the loop returns as soon as len(bits) >= count, which it tests only
\* after an append, and returns every bit when count is never reached
DecodeBits(data_bytes, count) ==
    LET all == AllBits(data_bytes)
        n == Min(IF count < 1 THEN 1 ELSE count, Len(all))
    IN  SubSeq(all, 1, n)

read_coils_return(rx, count) ==
    LET r == TransactCheck(rx, MinRespLen)
    IN  IF ~Truthy(r) THEN RetNone
        ELSE IF IsException(rx) THEN RetNone
        ELSE LET byte_count == rx[3]
                 data_bytes == BSlice(rx, 3, 3 + byte_count)
             IN  RetList(DecodeBits(data_bytes, count))

DecodeRegs(data_bytes) ==
    [k \in 1..(Len(data_bytes) \div 2) |->
        UnpackBE(SubSeq(data_bytes, 2 * k - 1, 2 * k))]

ReadHoldingReturnPartial(rx, count) ==
    LET r == TransactCheck(rx, MinRespLen)
    IN  IF ~Truthy(r) THEN RetNone
        ELSE IF IsException(rx) THEN RetNone
        ELSE RetList(DecodeRegs(BSlice(rx, 3, 3 + rx[3])))

read_holding_return(rx, count) ==
    LET r == TransactCheck(rx, MinRespLen)
    IN  IF ~Truthy(r) THEN RetNone
        ELSE IF IsException(rx) THEN RetNone
        ELSE LET byte_count == rx[3]
                 data_bytes == BSlice(rx, 3, 3 + byte_count)
                 regs == DecodeRegs(data_bytes)
             IN  IF Len(regs) < count THEN RetNone ELSE RetList(regs)

-----------------------------------------------------------------------------
(* One request/response exchange between the master and the slave *)

\* register store contents the slave can hold when a request arrives:
\* any coil pattern (written by 0x05 requests), HOLDING[0] a counter value
\* written by the foreground loop, HOLDING[1..15] never written
CoilsOf(S) == [i \in 0..(NumCoils - 1) |-> IF i \in S THEN 1 ELSE 0]
HoldingOf(c) == [i \in 0..(NumHolding - 1) |-> IF i = 0 THEN c ELSE 0]

StoreSamples ==
    { [coils |-> CoilsOf({}), holding |-> HoldingOf(0)],
      [coils |-> CoilsOf({0, 3, 8, 9, 15}), holding |-> HoldingOf(258)],
      [coils |-> CoilsOf(0..(NumCoils - 1)), holding |-> HoldingOf(65535)],
      [coils |-> CoilsOf({0}), holding |-> HoldingOf(65794)] }

\* frames on the bus that this master did not build
ForeignUnits == { 1, 2 }
ForeignFuncs == { 1, 3, 5, 6, 16, 133 }
ForeignWord1 == { 0, 15, 16, 65535 }
ForeignWord2 == { 0, 1, 65280, 65281 }

InitExchange ==
    /\ phase = "idle"
    /\ call = NoCall
    /\ req = << >>
    /\ resp = None
    /\ tx = << >>
    /\ ret = RetNone

\* the slave's threads as they are before they start
InitWorker ==
    /\ wpc = "read"
    /\ line = << >>
    /\ narrived = 0
    /\ arrivals = << >>
    /\ handled = << >>
    /\ buffer = << >>
    /\ wframe = << >>
    /\ wout = None
    /\ written = << >>
    /\ sdev = "open"

InitUi ==
    /\ upc = "idle"
    /\ uval = 0
    /\ coil0 = 0
    /\ ucount = 0
    /\ last_tick = 0
    /\ now = 0
    /\ stop_event = FALSE
    /\ running = TRUE

Callers == 1..MaxCallers

\* ModbusMaster.__init__, and no caller inside an operation
InitMaster ==
    /\ ser = "None"
    /\ mlock = FALSE
    /\ tpc = [c \in Callers |-> "idle"]
    /\ tcall = [c \in Callers |-> NoCall]
    /\ tresp = [c \in Callers |-> None]
    /\ tret = [c \in Callers |-> RetNone]
    /\ ncalls = 0
    /\ rxbuf = << >>
    /\ pending = << >>

\* the threads of a GUI master: the Tk thread, the reader threads and the
\* thread started by a button
Readers == 1..MaxReaders
ButtonThread == MaxReaders + 1
UiThread == MaxReaders + 2

\* the items a reader thread puts in the queue: a register value, or no
\* value with the reason ("None" in Master_3.py, where the item is val)
ReadOk(n) == [ok |-> TRUE, val |-> n, err |-> "None"]
ReadFailed(e) == [ok |-> FALSE, val |-> 0, err |-> e]
NoItem == [ok |-> FALSE, val |-> 0, err |-> "nothing"]

\* MasterApp.__init__: no client, no reader thread, an empty queue
InitApp ==
    /\ client = "None"
    /\ connected = FALSE
    /\ applock = 0
    /\ inop = {}
    /\ stop_reader = FALSE
    /\ data_q = << >>
    /\ rdpc = [r \in Readers |-> "off"]
    /\ rdval = [r \in Readers |-> NoItem]
    /\ apc = "idle"
    /\ wkpc = "off"
    /\ nreads = 0
    /\ lastput = NoItem
    /\ taken = NoItem
    /\ failures = 0

Init ==
    /\ \E st \in StoreSamples : COILS = st.coils /\ HOLDING = st.holding
    /\ LOCK = FALSE
    /\ InitExchange
    /\ InitWorker
    /\ InitUi
    /\ InitMaster
    /\ InitApp

\* _transact up to ser.write(packet): the request is on the wire
Send(op, address, arg, frame_wo_crc) ==
    /\ phase = "idle"
    /\ call' = [op |-> op, address |-> address, arg |-> arg]
    /\ req' = master_append_crc(frame_wo_crc)
    /\ phase' = "sent"
    /\ UNCHANGED <<COILS, HOLDING, LOCK, resp, tx, ret, workerVars, masterVars, appVars, uiVars>>

write_coil(address, value) ==
    Send("write_coil", address, IF value THEN 1 ELSE 0,
         WriteCoilFrame(DEFAULT_SLAVE_ID, address, value))

read_coils(address, count) ==
    Send("read_coils", address, count,
         ReadCoilsFrame(DEFAULT_SLAVE_ID, address, count))

read_holding(address, count) ==
    Send("read_holding", address, count,
         ReadHoldingFrame(DEFAULT_SLAVE_ID, address, count))

\* eight well-formed bytes put on the bus by another master, which may
\* address another unit or use a function code this slave does not support
ForeignFrame(unit, func, w1, w2) ==
    /\ phase = "idle"
    /\ call' = NoCall
    /\ req' = master_append_crc(<<unit, func>> \o PackBE(w1) \o PackBE(w2))
    /\ phase' = "sent"
    /\ UNCHANGED <<COILS, HOLDING, LOCK, resp, tx, ret, workerVars, masterVars, appVars, uiVars>>

FlipBit(byte, k) == IF BitAt(byte, k) = 1 THEN byte - Pow2(k) ELSE byte + Pow2(k)

\* bit k (0..15) of the two CRC bytes of a frame inverted
FlipCrc(frame, k) ==
    LET pos == Len(frame) - 1 + (k \div 8)
    IN  [frame EXCEPT ![pos] = FlipBit(frame[pos], k % 8)]

\* line noise inverts one bit of the CRC field of a well-formed request
FlipCrcBit(k) ==
    /\ phase = "sent"
    /\ MasterCrcOk(req)
    /\ req' = FlipCrc(req, k)
    /\ UNCHANGED <<COILS, HOLDING, LOCK, phase, call, resp, tx, ret, workerVars, masterVars, appVars, uiVars>>

\* what serial_worker writes for an outcome: "if resp: ser.write(resp)",
\* and nothing when handle_request raised (except Exception: pass)
Written(out) == IF Truthy(out) THEN out.bytes ELSE << >>

\* serial_worker extracts the 8-byte frame and calls handle_request
Dispatch ==
    /\ phase = "sent"
    /\ LET h == handle_request(req, COILS, HOLDING)
       IN  /\ resp' = h.out
           /\ COILS' = h.coils
           /\ tx' = Written(h.out)
    /\ phase' = "handled"
    /\ UNCHANGED <<HOLDING, LOCK, call, req, ret, workerVars, masterVars, appVars, uiVars>>

\* the rest of the master's operation: ser.read(256) and the decode
MasterReturn(op, count, rx) ==
    IF op = "write_coil" THEN write_coil_return(rx)
    ELSE IF op = "read_coils" THEN read_coils_return(rx, count)
    ELSE read_holding_return(rx, count)

Receive ==
    /\ phase = "handled"
    /\ call.op # "none"
    /\ ret' = MasterReturn(call.op, call.arg, tx)
    /\ phase' = "done"
    /\ UNCHANGED <<COILS, HOLDING, LOCK, call, req, resp, tx, workerVars, masterVars, appVars, uiVars>>

Next ==
    \/ \E a \in 0..MaxAddress, v \in BOOLEAN : write_coil(a, v)
    \/ \E a \in 0..MaxAddress, c \in 0..MaxCount : read_coils(a, c)
    \/ \E a \in 0..MaxAddress, c \in 0..MaxCount : read_holding(a, c)
    \/ \E u \in ForeignUnits, f \in ForeignFuncs,
          w1 \in ForeignWord1, w2 \in ForeignWord2 : ForeignFrame(u, f, w1, w2)
    \/ \E k \in 0..15 : FlipCrcBit(k)
    \/ Dispatch
    \/ Receive

Spec == Init /\ [][Next]_vars

-----------------------------------------------------------------------------
(* Properties of the exchange *)

Word(frame, i) == frame[i] * 256 + frame[i + 1]

\* the dispatcher step on the frame in flight
DispatchStep == phase = "sent" /\ phase' = "handled"

StoreUnchanged == COILS' = COILS /\ HOLDING' = HOLDING

\* the frame in flight is addressed to this slave and its CRC field is the
\* CRC16 of its first six bytes
WellFormedToUnit == req[1] = UNIT_ID /\ MasterCrcOk(req)

\* the frame in flight is the one the master's call built, unaltered
FromCall(op) ==
    /\ call.op = op
    /\ phase \in {"sent", "handled", "done"}
    /\ MasterCrcOk(req)

\* C1: write-coil round trip. The frame the master's write_coil(address,
\* value) builds is 8 bytes carrying the address and 0xFF00/0x0000; handling
\* a well-formed 0x05 frame for an address in 0..15 sets exactly that coil to
\* 1 if the value word is 0xFF00 and to 0 for any other value word, leaves
\* every other coil and every holding register alone and writes back the
\* request's first six bytes with their CRC (the request itself); the
\* master's write_coil then returns True.
C1_WriteCoilRoundTrip ==
    /\ [](FromCall("write_coil") =>
            /\ Len(req) = 8
            /\ req[1] = UNIT_ID /\ req[2] = 5
            /\ Word(req, 3) = call.address
            /\ Word(req, 5) = (IF call.arg = 1 THEN 65280 ELSE 0))
    /\ [][(DispatchStep /\ WellFormedToUnit /\ req[2] = 5 /\ Word(req, 3) < 16) =>
            /\ COILS' = [COILS EXCEPT
                          ![Word(req, 3)] = IF Word(req, 5) = 65280 THEN 1 ELSE 0]
            /\ HOLDING' = HOLDING
            /\ resp'.kind = "bytes"
            /\ tx' = req
            /\ SubSeq(tx', 1, 6) = SubSeq(req, 1, 6)
            /\ MasterCrcOk(tx')]_vars
    /\ []((FromCall("write_coil") /\ phase = "done" /\ call.address < 16) =>
            /\ ret = RetBool(TRUE)
            /\ COILS[call.address] = call.arg)

C1_Witness ==
    /\ phase = "done"
    /\ call = [op |-> "write_coil", address |-> 5, arg |-> 1]
    /\ COILS = CoilsOf({5})
    /\ tx = req
    /\ ret = RetBool(TRUE)

\* C2: read-coils round trip. For quantity >= 1 and start+quantity <= 16 the
\* response to the master's read_coils(start, quantity) is unit, 0x01,
\* byte-count ceil(quantity/8), the data bytes and a CRC the master accepts;
\* coil start+i is bit (i mod 8) of data byte (i div 8), every padding bit
\* is 0, and read_coils returns exactly the quantity bits
\* COILS[start .. start+quantity).
C2_ReadCoilsRoundTrip ==
    (/\ FromCall("read_coils")
     /\ phase \in {"handled", "done"}
     /\ call.arg >= 1
     /\ call.address + call.arg <= 16)
    => LET start == call.address
           qty == call.arg
           bc == (qty + 7) \div 8
       IN  /\ Len(tx) = 3 + bc + 2
           /\ tx[1] = UNIT_ID /\ tx[2] = 1 /\ tx[3] = bc
           /\ \A i \in 0..(qty - 1) :
                  BitAt(tx[4 + (i \div 8)], i % 8) = COILS[start + i]
           /\ \A i \in qty..(8 * bc - 1) : BitAt(tx[4 + (i \div 8)], i % 8) = 0
           /\ MasterCrcOk(tx)
           /\ phase = "done" =>
                  ret = RetList([i \in 1..qty |-> COILS[start + i - 1]])

C2_Witness ==
    /\ phase = "done"
    /\ call = [op |-> "read_coils", address |-> 3, arg |-> 13]
    /\ COILS = CoilsOf({0, 3, 8, 9, 15})
    /\ SubSeq(tx, 1, 5) = <<1, 1, 2, 97, 16>>
    /\ ret = RetList(<<1, 0, 0, 0, 0, 1, 1, 0, 0, 0, 0, 0, 1>>)

\* every register of the store is a 16-bit unsigned value
HoldingIs16Bit == \A i \in 0..(NumHolding - 1) : HOLDING[i] \in 0..65535

C4_ExceptionPath ==
    /\ []((phase = "handled" /\ WellFormedToUnit /\ req[2] \notin {1, 3, 5}) =>
            /\ Len(tx) = 5
            /\ tx[1] = UNIT_ID
            /\ tx[2] = (IF req[2] >= 128 THEN req[2] ELSE req[2] + 128)
            /\ tx[3] = 1
            /\ tx[4] + 256 * tx[5] = master_crc16_modbus(SubSeq(tx, 1, 3)))
    /\ [][(DispatchStep /\ WellFormedToUnit /\ req[2] \notin {1, 3, 5}) =>
            StoreUnchanged]_vars

\* 01 06 00 00 00 01 48 0A is answered with 01 86 01 and its CRC
C4_Witness ==
    /\ phase = "handled"
    /\ req = <<1, 6, 0, 0, 0, 1, 72, 10>>
    /\ SubSeq(tx, 1, 3) = <<1, 134, 1>>
    /\ Len(tx) = 5

\* the frame in flight is a well-formed request with one bit of its CRC
\* field inverted
OneCrcBitFlipped == \E k \in 0..15 : MasterCrcOk(FlipCrc(req, k))

\* C5: checksum rejection. A well-formed 8-byte request for this unit, of
\* any function code, with any single bit of its two CRC bytes inverted is
\* dropped: handle_request returns None, nothing is written back and no
\* coil or holding register changes.
C5_ChecksumRejection ==
    [][(DispatchStep /\ req[1] = UNIT_ID /\ OneCrcBitFlipped) =>
          /\ resp' = None
          /\ tx' = << >>
          /\ StoreUnchanged]_vars

\* 01 05 00 00 FF 00 8C 3A with bit 0 of the high CRC byte inverted, while
\* coil 0 is clear
C5_Witness ==
    /\ phase = "handled"
    /\ req = <<1, 5, 0, 0, 255, 0, 140, 59>>
    /\ COILS[0] = 0
    /\ tx = << >>

\* C6: unit isolation. An 8-byte frame whose first byte is not the
\* configured unit id, whatever its function code and whether or not its
\* CRC is valid, produces no response and changes no coil or register.
C6_UnitIsolation ==
    [][(DispatchStep /\ Len(req) = 8 /\ req[1] # UNIT_ID) =>
          /\ resp' = None
          /\ tx' = << >>
          /\ StoreUnchanged]_vars

\* a well-formed write-coil(0, on) for unit 2 while coil 0 is clear
C6_Witness ==
    /\ phase = "handled"
    /\ req[1] = 2 /\ req[2] = 5 /\ Word(req, 3) = 0 /\ Word(req, 5) = 65280
    /\ MasterCrcOk(req)
    /\ COILS[0] = 0
    /\ tx = << >>

\* C7: no panic. Handling any 8-byte candidate frame, read requests whose
\* start+quantity exceeds the store size included, ends by returning a
\* response or None, never by raising an error.
C7_NoPanic == phase = "handled" => resp.kind # "raise"

-----------------------------------------------------------------------------
(* The slave process: serial_worker and the SlaveUI callbacks on the store *)

\* the requests MasterUI sends (write coil 0, read coils 0..7, read HR0)
\* and one read-coils request that runs past the end of the store
SlaveRequests ==
    { master_append_crc(WriteCoilFrame(UNIT_ID, 0, TRUE)),
      master_append_crc(WriteCoilFrame(UNIT_ID, 0, FALSE)),
      master_append_crc(ReadCoilsFrame(UNIT_ID, 0, 8)),
      master_append_crc(ReadHoldingFrame(UNIT_ID, 0, 1)),
      master_append_crc(ReadCoilsFrame(UNIT_ID, 15, 2)) }

InitSlave ==
    /\ COILS = CoilsOf({})
    /\ HOLDING = HoldingOf(0)
    /\ LOCK = FALSE
    /\ InitExchange
    /\ InitWorker
    /\ InitUi
    /\ InitMaster
    /\ InitApp

CanAcquireAlways(locked) == TRUE

\* threading.Lock: "with LOCK" enters only while the lock is free
CanAcquire(locked) == ~locked

\* a request of the master arrives at the slave's serial device
Arrive(f) ==
    /\ narrived < MaxRequests
    /\ line' = line \o f
    /\ narrived' = narrived + 1
    /\ arrivals' = Append(arrivals, [bytes |-> f, intact |-> TRUE])
    /\ UNCHANGED <<COILS, HOLDING, LOCK, exchVars, uiVars, masterVars, appVars, sdev,
                   wpc, handled, buffer, wframe, wout, written>>

WorkerReadDropsFirst(k) ==
    /\ wpc = "read"
    /\ 1 <= k /\ k <= Len(line) /\ k <= ReadSize
    /\ buffer' = buffer \o SubSeq(line, 2, k)
    /\ line' = SubSeq(line, k + 1, Len(line))
    /\ wpc' = "loop"
    /\ UNCHANGED <<COILS, HOLDING, LOCK, exchVars, uiVars, masterVars, appVars, sdev,
                   narrived, arrivals, handled, wframe, wout, written>>

\* chunk = ser.read(64) returned k >= 1 bytes; buffer.extend(chunk)
WorkerRead(k) ==
    /\ wpc = "read"
    /\ 1 <= k /\ k <= Len(line) /\ k <= ReadSize
    /\ buffer' = buffer \o SubSeq(line, 1, k)
    /\ line' = SubSeq(line, k + 1, Len(line))
    /\ wpc' = "loop"
    /\ UNCHANGED <<COILS, HOLDING, LOCK, exchVars, uiVars, masterVars, appVars, sdev,
                   narrived, arrivals, handled, wframe, wout, written>>

WorkerLoopResync ==
    /\ wpc = "loop"
    /\ IF Len(buffer) >= ReqLen /\ buffer[1] # UNIT_ID
       THEN /\ buffer' = SubSeq(buffer, 2, Len(buffer))
            /\ UNCHANGED <<wpc, wframe, handled>>
       ELSE IF Len(buffer) >= ReqLen
       THEN /\ wframe' = SubSeq(buffer, 1, ReqLen)
            /\ buffer' = SubSeq(buffer, ReqLen + 1, Len(buffer))
            /\ handled' = Append(handled, SubSeq(buffer, 1, ReqLen))
            /\ wpc' = "handle"
       ELSE /\ wpc' = "read"
            /\ UNCHANGED <<wframe, buffer, handled>>
    /\ UNCHANGED <<COILS, HOLDING, LOCK, exchVars, uiVars, masterVars, appVars, sdev,
                   line, narrived, arrivals, wout, written>>

\* while len(buffer) >= 8: frame = bytes(buffer[:8]); buffer = buffer[8:]
WorkerLoop ==
    /\ wpc = "loop"
    /\ IF Len(buffer) >= ReqLen
       THEN /\ wframe' = SubSeq(buffer, 1, ReqLen)
            /\ buffer' = SubSeq(buffer, ReqLen + 1, Len(buffer))
            /\ handled' = Append(handled, SubSeq(buffer, 1, ReqLen))
            /\ wpc' = "handle"
       ELSE /\ wpc' = "read"
            /\ UNCHANGED <<wframe, buffer, handled>>
    /\ UNCHANGED <<COILS, HOLDING, LOCK, exchVars, uiVars, masterVars, appVars, sdev,
                   line, narrived, arrivals, wout, written>>

\* handle_request up to its "with LOCK", or to its return when the frame
\* is dropped or answered with the exception frame
WorkerHandle ==
    /\ wpc = "handle"
    /\ IF TakesLock(wframe)
       THEN wpc' = "acquire" /\ UNCHANGED wout
       ELSE wpc' = "respond" /\ wout' = handle_request(wframe, COILS, HOLDING).out
    /\ UNCHANGED <<COILS, HOLDING, LOCK, exchVars, uiVars, masterVars, appVars, sdev,
                   line, narrived, arrivals, handled, buffer, wframe, written>>

WorkerAcquire ==
    /\ wpc = "acquire"
    /\ CanAcquire(LOCK)
    /\ LOCK' = TRUE
    /\ wpc' = "body"
    /\ UNCHANGED <<COILS, HOLDING, exchVars, uiVars, masterVars, appVars, sdev,
                   line, narrived, arrivals, handled, buffer, wframe, wout, written>>

\* the statements inside "with LOCK" of the 0x05, 0x01 or 0x03 branch
WorkerBody ==
    /\ wpc = "body"
    /\ \E h \in {handle_request(wframe, COILS, HOLDING)} :
           COILS' = h.coils /\ wout' = h.out
    /\ wpc' = "release"
    /\ UNCHANGED <<HOLDING, LOCK, exchVars, uiVars, masterVars, appVars, sdev,
                   line, narrived, arrivals, handled, buffer, wframe, written>>

WorkerRelease ==
    /\ wpc = "release"
    /\ LOCK' = FALSE
    /\ wpc' = "respond"
    /\ UNCHANGED <<COILS, HOLDING, exchVars, uiVars, masterVars, appVars, sdev,
                   line, narrived, arrivals, handled, buffer, wframe, wout, written>>

\* resp = handle_request(frame) has returned or raised: "if resp:
\* ser.write(resp)" and the next pass of the inner loop, or "except
\* Exception: pass" and the next pass of the outer loop; frame and resp
\* are not used after this
WorkerRespond ==
    /\ wpc = "respond"
    /\ IF wout.kind = "raise"
       THEN wpc' = "read" /\ UNCHANGED written
       ELSE /\ wpc' = "loop"
            /\ written' = IF Truthy(wout) THEN Append(written, wout.bytes)
                                          ELSE written
    /\ wframe' = << >>
    /\ wout' = None
    /\ UNCHANGED <<COILS, HOLDING, LOCK, exchVars, uiVars, masterVars, appVars, sdev,
                   line, narrived, arrivals, handled, buffer>>

\* the dispatcher thread when every read returns all the pending input
WorkerStep ==
    \/ WorkerRead(Len(line))
    \/ WorkerLoop
    \/ WorkerHandle
    \/ WorkerAcquire
    \/ WorkerBody
    \/ WorkerRelease
    \/ WorkerRespond

\* time passes
Elapse ==
    /\ now < MaxTime
    /\ now' = now + 1
    /\ UNCHANGED <<COILS, HOLDING, LOCK, exchVars, workerVars, masterVars, appVars,
                   upc, uval, coil0, ucount, last_tick, stop_event, running>>

UiGoto(pc) ==
    /\ upc' = pc
    /\ UNCHANGED <<exchVars, workerVars, masterVars, appVars, now, stop_event, running>>

UiAcquire(from, to) ==
    /\ upc = from
    /\ CanAcquire(LOCK)
    /\ LOCK' = TRUE
    /\ UiGoto(to)
    /\ UNCHANGED <<COILS, HOLDING, uval, coil0, ucount, last_tick>>

UiRelease(from, to) ==
    /\ upc = from
    /\ LOCK' = FALSE
    /\ UiGoto(to)
    /\ UNCHANGED <<COILS, HOLDING, uval, coil0, ucount, last_tick>>

\* a button calls set_coil(val) between two timer callbacks
SetCoilCall(val) ==
    /\ upc = "idle"
    /\ upc' = "set_acquire"
    /\ uval' = val
    /\ UNCHANGED <<COILS, HOLDING, LOCK, exchVars, workerVars, masterVars, appVars,
                   coil0, ucount, last_tick, now, stop_event, running>>

SetCoilAcquire == UiAcquire("set_acquire", "set_body")

\* COILS[0] = 1 if val else 0
SetCoilBody ==
    /\ upc = "set_body"
    /\ COILS' = [COILS EXCEPT ![0] = IF uval # 0 THEN 1 ELSE 0]
    /\ uval' = 0
    /\ UiGoto("set_release")
    /\ UNCHANGED <<HOLDING, LOCK, coil0, ucount, last_tick>>

SetCoilRelease == UiRelease("set_release", "idle")

\* the timer calls ui_loop
UiLoopCall ==
    /\ upc = "idle"
    /\ UiGoto("read_acquire")
    /\ UNCHANGED <<COILS, HOLDING, LOCK, uval, coil0, ucount, last_tick>>

UiReadAcquire == UiAcquire("read_acquire", "read_body")

\* coil0 = COILS[0]
UiReadBody ==
    /\ upc = "read_body"
    /\ coil0' = COILS[0]
    /\ UiGoto("read_release")
    /\ UNCHANGED <<COILS, HOLDING, LOCK, uval, ucount, last_tick>>

UiReadRelease == UiRelease("read_release", "decide")

SecondElapsedStrictly(t, last) == t - last > OneSecond

\* time.time() - self._last_tick >= 1.0
SecondElapsed(t, last) == t - last >= OneSecond

\* if coil0: ... if a second has elapsed: self._count += 1;
\* self._last_tick = time.time(); the local coil0 is not used after this
UiDecide ==
    /\ upc = "decide"
    /\ IF coil0 # 0 /\ SecondElapsed(now, last_tick)
       THEN /\ ucount' = ucount + 1
            /\ last_tick' = now
            /\ UiGoto("write_acquire")
       ELSE /\ UNCHANGED <<ucount, last_tick>>
            /\ UiGoto("snap_acquire")
    /\ coil0' = 0
    /\ UNCHANGED <<COILS, HOLDING, LOCK, uval>>

UiWriteAcquire == UiAcquire("write_acquire", "write_body")

UiWriteBodyNextRegister ==
    /\ upc = "write_body"
    /\ HOLDING' = [HOLDING EXCEPT ![0] = ucount, ![1] = ucount]
    /\ UiGoto("write_release")
    /\ UNCHANGED <<COILS, LOCK, uval, coil0, ucount, last_tick>>

\* HOLDING[0] = self._count
UiWriteBody ==
    /\ upc = "write_body"
    /\ HOLDING' = [HOLDING EXCEPT ![0] = ucount]
    /\ UiGoto("write_release")
    /\ UNCHANGED <<COILS, LOCK, uval, coil0, ucount, last_tick>>

UiWriteRelease == UiRelease("write_release", "snap_acquire")

UiSnapAcquire == UiAcquire("snap_acquire", "snap_body")

\* coils_snapshot = COILS[:8]; hrs_snapshot = HOLDING[:4], shown in labels
UiSnapBody ==
    /\ upc = "snap_body"
    /\ UiGoto("snap_release")
    /\ UNCHANGED <<COILS, HOLDING, LOCK, uval, coil0, ucount, last_tick>>

\* ... and self.master.after(150, self.ui_loop)
UiSnapRelease == UiRelease("snap_release", "idle")

UiStep ==
    \/ \E val \in {0, 1} : SetCoilCall(val)
    \/ SetCoilAcquire
    \/ SetCoilBody
    \/ SetCoilRelease
    \/ UiLoopCall
    \/ UiReadAcquire
    \/ UiReadBody
    \/ UiReadRelease
    \/ UiDecide
    \/ UiWriteAcquire
    \/ UiWriteBody
    \/ UiWriteRelease
    \/ UiSnapAcquire
    \/ UiSnapBody
    \/ UiSnapRelease

NextSlave ==
    \/ \E f \in SlaveRequests : Arrive(f)
    \/ WorkerStep
    \/ UiStep
    \/ Elapse

SlaveSpec == InitSlave /\ [][NextSlave]_vars

\* the slave process is not halted: while some thread of it can take a
\* step, a step is eventually taken
FairSlaveSpec == SlaveSpec /\ WF_vars(NextSlave)

-----------------------------------------------------------------------------
(* Properties of the slave process *)

WriteOffEcho == master_append_crc(WriteCoilFrame(UNIT_ID, 0, FALSE))

\* the last write-coil response the slave has written is the echo of
\* write-coil(0, off): that request has been applied and answered and no
\* later write-coil request has been answered
WriteOffAnswered ==
    \E k \in 1..Len(written) :
        /\ written[k] = WriteOffEcho
        /\ \A j \in (k + 1)..Len(written) : written[j][2] # 5

\* C8: counter frozen while coil 0 is 0. Once write-coil(0, off) has been
\* applied and answered, no step that leaves coil 0 at 0 changes
\* HOLDING[0], under every interleaving of the dispatcher and the
\* foreground loop.
C8_CounterFrozen ==
    [][(WriteOffAnswered /\ COILS[0] = 0 /\ COILS'[0] = 0) =>
          HOLDING'[0] = HOLDING[0]]_vars

WorkerInWith == wpc \in {"body", "release"}

UiBodyPcs == {"set_body", "read_body", "write_body", "snap_body"}

UiInWith ==
    upc \in UiBodyPcs \cup {"set_release", "read_release", "write_release", "snap_release"}

\* C10: register store mutual exclusion. The dispatcher and the foreground
\* thread are never inside "with LOCK" together, LOCK is held exactly while
\* one of them is, every step that reads or writes COILS or HOLDING (the
\* bodies of the 0x05, 0x01 and 0x03 handlers, set_coil, the coil-0 read,
\* the HOLDING[0] write and the display snapshot) is taken by the thread
\* inside "with LOCK", and a held LOCK is always released.
C10_StoreMutualExclusion ==
    /\ [](~(WorkerInWith /\ UiInWith))
    /\ [](LOCK <=> (WorkerInWith \/ UiInWith))
    /\ [][/\ (COILS' # COILS \/ HOLDING' # HOLDING) =>
                (LOCK /\ (wpc = "body" \/ upc \in UiBodyPcs))
          /\ (wpc = "body" /\ wpc' # wpc) => (LOCK /\ ~UiInWith)
          /\ (upc \in UiBodyPcs /\ upc' # upc) => (LOCK /\ ~WorkerInWith)
          /\ (wout' # wout /\ TakesLock(wframe) /\ wframe' = wframe) =>
                (LOCK /\ wpc = "body")
          /\ (coil0' # coil0 /\ upc # "decide") => (LOCK /\ upc = "read_body")]_vars
    /\ (LOCK ~> ~LOCK)

\* the foreground loop is about to write HOLDING[0] inside "with LOCK"
\* while the dispatcher waits at the "with LOCK" of a handler
C10_Witness ==
    /\ LOCK
    /\ upc = "write_body"
    /\ wpc = "acquire"
    /\ ucount = 1

-----------------------------------------------------------------------------
(* Concurrent callers of one ModbusMaster (Master_5.py). Every caller runs *)
(* write_coil, read_coils or read_holding, which all go through _transact.  *)

\* the operations MasterUI runs on its own: the write_coil(0, True) of
\* the first button and the read_holding(0, 1) of _auto_poll
MasterCalls ==
    { [op |-> "write_coil", address |-> 0, arg |-> 1],
      [op |-> "read_holding", address |-> 0, arg |-> 1] }

\* the frame_wo_crc an operation hands to _transact
CallFrame(slave_id, cl) ==
    IF cl.op = "write_coil" THEN WriteCoilFrame(slave_id, cl.address, cl.arg = 1)
    ELSE IF cl.op = "read_coils" THEN ReadCoilsFrame(slave_id, cl.address, cl.arg)
    ELSE ReadHoldingFrame(slave_id, cl.address, cl.arg)

FailureReturnTruthy(op) == IF op = "write_coil" THEN RetBool(TRUE) ELSE RetList(<<0>>)

\* what an operation returns when _transact returned None
FailureReturn(op) == IF op = "write_coil" THEN RetBool(FALSE) ELSE RetNone

MasterCanAcquireAlways(locked) == TRUE

\* threading.Lock: "with self.lock" enters only while the lock is free
MasterCanAcquire(locked) == ~locked

\* connect(): serial.Serial(...) opens the port, or raises and leaves
\* self.ser = None
connect(ok) ==
    /\ ser = "None"
    /\ ser' = IF ok THEN "open" ELSE "None"
    /\ UNCHANGED <<COILS, HOLDING, LOCK, exchVars, workerVars, uiVars, appVars,
                   mlock, tpc, tcall, tresp, tret, ncalls, rxbuf, pending>>

\* a caller enters an operation: "if not self.ser: return None", or
\* packet = append_crc(frame_wo_crc) and on to "with self.lock"
MCall(c, cl) ==
    /\ tpc[c] = "idle"
    /\ ncalls < MaxCalls
    /\ ncalls' = ncalls + 1
    /\ IF ser = "None"
       THEN /\ tret' = [tret EXCEPT ![c] = FailureReturn(cl.op)]
            /\ UNCHANGED <<tpc, tcall>>
       ELSE /\ tpc' = [tpc EXCEPT ![c] = "acquire"]
            /\ tcall' = [tcall EXCEPT ![c] = cl]
            /\ tret' = [tret EXCEPT ![c] = RetNone]
    /\ UNCHANGED <<COILS, HOLDING, LOCK, exchVars, workerVars, uiVars, appVars,
                   ser, mlock, tresp, rxbuf, pending>>

\* with self.lock:
MAcquire(c) ==
    /\ tpc[c] = "acquire"
    /\ MasterCanAcquire(mlock)
    /\ mlock' = TRUE
    /\ tpc' = [tpc EXCEPT ![c] = "reset"]
    /\ UNCHANGED <<COILS, HOLDING, LOCK, exchVars, workerVars, uiVars, appVars,
                   ser, tcall, tresp, tret, ncalls, rxbuf, pending>>

\* self.ser.reset_input_buffer()
MReset(c) ==
    /\ tpc[c] = "reset"
    /\ rxbuf' = << >>
    /\ tpc' = [tpc EXCEPT ![c] = "write"]
    /\ UNCHANGED <<COILS, HOLDING, LOCK, exchVars, workerVars, uiVars, appVars,
                   ser, mlock, tcall, tresp, tret, ncalls, pending>>

\* what reaches the master's end of the line for a response the slave
\* wrote: the response, the response with one bit inverted, or nothing
LineOutcomes(bytes) ==
    { bytes, << >> }
        \cup (IF Len(bytes) >= 2 THEN {FlipCrc(bytes, 0)} ELSE {})

\* self.ser.write(packet); self.ser.flush(): the slave handles the
\* request and its answer is on its way
MWrite(c) ==
    /\ tpc[c] = "write"
    /\ \E packet \in {master_append_crc(CallFrame(DEFAULT_SLAVE_ID, tcall[c]))} :
       \E h \in {handle_request(packet, COILS, HOLDING)} :
          /\ COILS' = h.coils
          /\ \E bytes \in LineOutcomes(Written(h.out)) : pending' = pending \o bytes
    /\ tpc' = [tpc EXCEPT ![c] = "read"]
    /\ UNCHANGED <<HOLDING, LOCK, exchVars, workerVars, uiVars, appVars,
                   ser, mlock, tcall, tresp, tret, ncalls, rxbuf>>

\* bytes on their way arrive in the input buffer of the serial handle
MDeliver ==
    /\ pending # << >>
    /\ rxbuf' = rxbuf \o pending
    /\ pending' = << >>
    /\ UNCHANGED <<COILS, HOLDING, LOCK, exchVars, workerVars, uiVars, appVars,
                   ser, mlock, tpc, tcall, tresp, tret, ncalls>>

\* time.sleep(0.05); resp = self.ser.read(256): the bytes that have
\* arrived, none when the read times out
MRead(c) ==
    /\ tpc[c] = "read"
    /\ tresp' = [tresp EXCEPT ![c] = Bytes(BSlice(rxbuf, 0, MasterReadSize))]
    /\ rxbuf' = BSlice(rxbuf, MasterReadSize, Len(rxbuf))
    /\ tpc' = [tpc EXCEPT ![c] = "release"]
    /\ UNCHANGED <<COILS, HOLDING, LOCK, exchVars, workerVars, uiVars, appVars,
                   ser, mlock, tcall, tret, ncalls, pending>>

\* a call on the serial handle raises: "except Exception: return None"
MIoError(c) ==
    /\ tpc[c] \in {"reset", "write", "read"}
    /\ tresp' = [tresp EXCEPT ![c] = Raised]
    /\ tpc' = [tpc EXCEPT ![c] = "release"]
    /\ UNCHANGED <<COILS, HOLDING, LOCK, exchVars, workerVars, uiVars, appVars,
                   ser, mlock, tcall, tret, ncalls, rxbuf, pending>>

\* the end of the "with self.lock" block, left by falling off its end or
\* by the "return None" of the except clause
MRelease(c) ==
    /\ tpc[c] = "release"
    /\ mlock' = FALSE
    /\ IF tresp[c].kind = "raise"
       THEN /\ tret' = [tret EXCEPT ![c] = FailureReturn(tcall[c].op)]
            /\ tpc' = [tpc EXCEPT ![c] = "idle"]
            /\ tcall' = [tcall EXCEPT ![c] = NoCall]
            /\ tresp' = [tresp EXCEPT ![c] = None]
       ELSE /\ tpc' = [tpc EXCEPT ![c] = "check"]
            /\ UNCHANGED <<tcall, tresp, tret>>
    /\ UNCHANGED <<COILS, HOLDING, LOCK, exchVars, workerVars, uiVars, appVars,
                   ser, ncalls, rxbuf, pending>>

\* the length and CRC checks of _transact and the decode of the operation
MReturn(c) ==
    /\ tpc[c] = "check"
    /\ tret' = [tret EXCEPT ![c] =
                   MasterReturn(tcall[c].op, tcall[c].arg, tresp[c].bytes)]
    /\ tpc' = [tpc EXCEPT ![c] = "idle"]
    /\ tcall' = [tcall EXCEPT ![c] = NoCall]
    /\ tresp' = [tresp EXCEPT ![c] = None]
    /\ UNCHANGED <<COILS, HOLDING, LOCK, exchVars, workerVars, uiVars, appVars,
                   ser, mlock, ncalls, rxbuf, pending>>

\* the steps of a caller that is inside an operation
MasterStep(c) ==
    \/ MAcquire(c)
    \/ MIoError(c)
    \/ MReset(c)
    \/ MRead(c)
    \/ MRelease(c)
    \/ MReturn(c)
    \/ MWrite(c)

InitMasterRun ==
    /\ COILS = CoilsOf({})
    /\ HOLDING = HoldingOf(0)
    /\ LOCK = FALSE
    /\ InitExchange
    /\ InitWorker
    /\ InitUi
    /\ InitMaster
    /\ InitApp

NextMaster ==
    \/ \E ok \in BOOLEAN : connect(ok)
    \/ \E c \in Callers, cl \in MasterCalls : MCall(c, cl)
    \/ \E c \in Callers : MasterStep(c)
    \/ MDeliver

MasterSpec == InitMasterRun /\ [][NextMaster]_vars

\* the master process is not halted: no statement of _transact blocks
\* except "with self.lock", and ser.read returns after TIMEOUT, so while
\* some caller inside an operation can take a step, a step is taken
FairMasterSpec == MasterSpec /\ WF_vars(\E c \in Callers : MasterStep(c))

-----------------------------------------------------------------------------
(* Properties of the master's transactions *)

\* inside "with self.lock"
MasterInWith(c) == tpc[c] \in {"reset", "write", "read", "release"}

\* between "input buffer cleared" and "response read"
InFlight(c) == tpc[c] \in {"write", "read"}

\* a step of caller c on the serial handle: clear-input, write, read
SerialStep(c) == tpc[c] \in {"reset", "write", "read"} /\ tpc'[c] # tpc[c]

\* C9: transaction serialization on the master. At most one caller is
\* inside "with self.lock" (so at most one transaction is between "input
\* buffer cleared" and "response read"), the lock is held exactly while
\* one is, every clear-input, write and read step on the serial handle is
\* taken by the caller that holds the lock while no other transaction is
\* in flight, a caller that returns from an operation, whatever the
\* outcome, does not hold the lock, a held lock is always released, and a
\* caller waiting at "with self.lock" eventually enters it.
C9_TransactionSerialization ==
    /\ [](\A c, d \in Callers : (c # d) => ~(MasterInWith(c) /\ MasterInWith(d)))
    /\ [](Cardinality({c \in Callers : InFlight(c)}) <= 1)
    /\ [](mlock <=> \E c \in Callers : MasterInWith(c))
    /\ [][\A c \in Callers :
            /\ SerialStep(c) =>
                  (mlock /\ \A d \in Callers \ {c} : ~MasterInWith(d) /\ ~InFlight(d))
            /\ (tpc[c] # "idle" /\ tpc'[c] = "idle") =>
                  (~mlock' \/ \E d \in Callers \ {c} : MasterInWith(d)')]_vars
    /\ (mlock ~> ~mlock)
    /\ \A c \in Callers : (tpc[c] = "acquire") ~> (tpc[c] = "reset")

\* one caller has written its request and waits for the response inside
\* "with self.lock" while another waits at "with self.lock"
C9_Witness ==
    \E c, d \in Callers :
        /\ c # d
        /\ mlock
        /\ tpc[c] = "read"
        /\ tpc[d] = "acquire"

-----------------------------------------------------------------------------
(* The master's operations on whatever bytes ser.read returns: the slave's *)
(* response, or bytes that line noise or another device left in its place   *)

\* frames without their CRC: write-coil echoes, read-coils and read-holding
\* responses with full, short, empty and odd payloads, exception frames,
\* and frames of 8 bytes and more whose function byte has bit 7 set
ResponseBodies ==
    { <<1, 5, 0, 0, 255, 0>>, <<1, 5, 0, 3, 0, 0>>, <<2, 5, 0, 0, 255, 0>>,
      <<1, 133, 1>>, <<1, 133, 1, 0, 0, 0>>, <<1, 133, 1, 0, 0, 0, 0>>,
      <<1, 1, 0>>, <<1, 1, 1, 5>>, <<1, 1, 2, 5, 129>>, <<1, 1, 2, 5>>,
      <<1, 129, 1>>, <<1, 129, 1, 255>>,
      <<1, 3, 0>>, <<1, 3, 2, 0, 7>>, <<1, 3, 4, 0, 7, 1, 2>>,
      <<1, 3, 3, 0, 7, 9>>, <<1, 3, 4, 0, 7>>, <<1, 3, 2, 0, 7, 1, 2>>,
      <<1, 131, 1>>, <<1, 131, 2, 0, 7>> }

\* the byte strings ser.read(256) is made to return: nothing, fewer bytes
\* than any frame, and every body with its CRC and with a wrong CRC
ResponseSamples ==
    { << >>, <<1>>, <<1, 5, 0, 0>> }
        \cup { slave_append_crc(b) : b \in ResponseBodies }
        \cup { FlipCrc(slave_append_crc(b), 0) : b \in ResponseBodies }

\* resp = self.ser.read(256) returns bytes other than the slave's response
LineDelivers(bytes) ==
    /\ phase = "handled"
    /\ call.op # "none"
    /\ tx = Written(resp)
    /\ tx' = bytes
    /\ UNCHANGED <<COILS, HOLDING, LOCK, phase, call, req, resp, ret,
                   workerVars, masterVars, appVars, uiVars>>

\* start addresses past the end of the 16-register store
FarAddresses == {17, 65535}

NextResponse ==
    \/ \E a \in 0..MaxAddress, v \in BOOLEAN : write_coil(a, v)
    \/ \E a \in 0..MaxAddress, c \in 0..MaxCount : read_coils(a, c)
    \/ \E a \in (0..MaxAddress) \cup FarAddresses, c \in 0..MaxCount :
          read_holding(a, c)
    \/ Dispatch
    \/ \E bytes \in ResponseSamples : LineDelivers(bytes)
    \/ Receive

ResponseSpec == Init /\ [][NextResponse]_vars

\* the operation has returned on the bytes tx
Returned(op) == phase = "done" /\ call.op = op

\* the received bytes end with the little-endian CRC16 of what precedes
CrcMatches(rx) ==
    Len(rx) >= 2 /\
    master_crc16_modbus(SubSeq(rx, 1, Len(rx) - 2))
        = rx[Len(rx) - 1] + 256 * rx[Len(rx)]

\* C11: write_coil returns True only if the received bytes decode without
\* error: they are a complete frame (at least the 5 bytes of the shortest
\* frame), their last two bytes are the little-endian CRC16 of the bytes
\* before, and the function byte does not have bit 7 set; otherwise it
\* returns False.
C11_WriteCoilDecode ==
    Returned("write_coil") =>
        /\ ret.kind \in {"True", "False"}
        /\ (ret.kind = "True") =>
              (Len(tx) >= MinRespLen /\ CrcMatches(tx) /\ tx[2] < 128)

\* the bits the data bytes of a read-coils response hold
PayloadBits(rx) == 8 * Len(BSlice(rx, 3, 3 + rx[3]))

\* C12: read_coils(address, count) returns None when nothing or fewer than
\* 5 bytes were received, when the CRC does not match, when the frame is
\* an exception frame, and when the payload holds fewer than count bits;
\* whenever it returns a bit array, the array has exactly count bits.
C12_ReadCoilsDecode ==
    Returned("read_coils") =>
        /\ ret.kind \in {"None", "list"}
        /\ (\/ Len(tx) < MinRespLen
            \/ ~CrcMatches(tx)
            \/ tx[2] >= 128
            \/ PayloadBits(tx) < call.arg) => ret = RetNone
        /\ (ret.kind = "list") => Len(ret.list) = call.arg

\* the received bytes are a read-holding response that passes the length,
\* CRC and exception tests
DecodableFrame(rx) == Len(rx) >= MinRespLen /\ CrcMatches(rx) /\ rx[2] < 128

\* the registers the payload of the received frame decodes to
PayloadRegs(rx) == Len(BSlice(rx, 3, 3 + rx[3])) \div 2

\* the master's read_holding request reached the slave and the bytes the
\* master reads are the slave's response
AnsweredBySlave ==
    /\ call.op = "read_holding"
    /\ phase \in {"handled", "done"}
    /\ tx = Written(resp)

\* registers of the store from start on: 16 - start, none from 16 on
Existing(start) == IF start >= NumHolding THEN 0 ELSE NumHolding - start

\* read_holding never returns a list of fewer than count registers, and
\* returns None when the frame decodes to fewer than count
ShortReadIsNone ==
    Returned("read_holding") =>
        /\ ret = RetNone \/ (ret.kind = "list" /\ Len(ret.list) >= call.arg)
        /\ (DecodableFrame(tx) /\ PayloadRegs(tx) < call.arg) => ret = RetNone

\* for start+quantity > 16 the slave's response carries exactly the
\* registers HOLDING[start .. 16), as 16-bit big-endian words
OnlyExistingRegisters ==
    (AnsweredBySlave /\ call.address + call.arg > NumHolding) =>
        LET n == Existing(call.address)
        IN  /\ Len(tx) = 3 + 2 * n + 2
            /\ tx[3] = 2 * n
            /\ \A i \in 0..(n - 1) :
                  tx[4 + 2 * i] * 256 + tx[5 + 2 * i]
                      = HOLDING[call.address + i] % 65536

-----------------------------------------------------------------------------
(* The Simulation Driver: the tick of SlaveUI.ui_loop *)

\* Tk runs the callback that master.after(150, self.ui_loop) scheduled:
\* the timer is served however often buttons are pressed
TickingSlaveSpec == SlaveSpec /\ WF_vars(NextSlave) /\ SF_vars(UiLoopCall)

\* the positions of ui_loop
TickPcs ==
    {"read_acquire", "read_body", "read_release", "decide", "write_acquire",
     "write_body", "write_release", "snap_acquire", "snap_body", "snap_release"}

\* the tick passes its test of coil0 and of the elapsed time
TickDecides == upc = "decide" /\ upc' # "decide"

\* C14: increment rule of the Simulation Driver. A tick increments the
\* counter, by exactly 1, and records the time exactly when the coil-0
\* value it read is set and at least one second has elapsed since the
\* last increment, and then writes the counter into HOLDING[0]; any other
\* tick leaves the counter, the recorded time and every register
\* unchanged; no step of a tick changes a coil; HOLDING[0] equals the
\* counter except between an increment and its write. Once coil 0 is set
\* and a second has elapsed with the counter at 0, HOLDING[0] becomes 1
\* unless coil 0 is cleared first.
C14_IncrementRule ==
    /\ [][TickDecides =>
            IF coil0 # 0 /\ now - last_tick >= 1
            THEN /\ ucount' = ucount + 1
                 /\ last_tick' = now
                 /\ upc' = "write_acquire"
            ELSE /\ ucount' = ucount
                 /\ last_tick' = last_tick
                 /\ upc' = "snap_acquire"]_vars
    /\ [][(upc = "write_body" /\ upc' # upc) =>
            /\ HOLDING' = [HOLDING EXCEPT ![0] = HOLDING[0] + 1]
            /\ HOLDING'[0] = ucount]_vars
    /\ [][(HOLDING' # HOLDING) => (upc = "write_body" /\ upc' # upc)]_vars
    /\ [][(ucount' # ucount \/ last_tick' # last_tick) => TickDecides]_vars
    /\ [][(upc \in TickPcs /\ upc' # upc) => COILS' = COILS]_vars
    /\ [](HOLDING[0] = IF upc \in {"write_acquire", "write_body"}
                       THEN ucount - 1 ELSE ucount)
    /\ ((COILS[0] = 1 /\ ucount = 0 /\ now - last_tick >= 1)
            ~> (HOLDING[0] = 1 \/ COILS[0] = 0))

\* a write-coil(0, on) request was answered, a second has elapsed and the
\* tick has written 1 into HOLDING[0]
C14_Witness ==
    /\ Len(written) = 1
    /\ written[1] = master_append_crc(WriteCoilFrame(UNIT_ID, 0, TRUE))
    /\ COILS[0] = 1
    /\ now >= 1
    /\ ucount = 1
    /\ HOLDING[0] = 1
    /\ upc = "write_release"

-----------------------------------------------------------------------------
(* The writers of the register store: the slave process fed with frames   *)
(* of every kind the dispatcher distinguishes                             *)

\* the requests of MasterUI, write-coil requests for another coil and for
\* an address past the store, an unsupported function, a frame for
\* another unit and a frame with a wrong CRC
WriterRequests ==
    SlaveRequests \cup
    { master_append_crc(WriteCoilFrame(UNIT_ID, 3, TRUE)),
      master_append_crc(WriteCoilFrame(UNIT_ID, 16, TRUE)),
      master_append_crc(ReadHoldingFrame(UNIT_ID, 14, 4)),
      master_append_crc(<<UNIT_ID, 6, 0, 0, 0, 7>>),
      master_append_crc(WriteCoilFrame(2, 0, TRUE)),
      FlipCrc(master_append_crc(WriteCoilFrame(UNIT_ID, 0, TRUE)), 0) }

NextWriter ==
    \/ \E f \in WriterRequests : Arrive(f)
    \/ WorkerStep
    \/ UiStep
    \/ Elapse

WriterSpec == InitSlave /\ [][NextWriter]_vars

\* a step of the dispatcher thread, of ui_loop, of set_coil
WorkerMoves == wpc' # wpc
TickMoves == upc \in TickPcs /\ upc' # upc
SetCoilMoves == upc \in {"set_acquire", "set_body", "set_release"} /\ upc' # upc

\* at most the element at index k differs
SameExcept(old, new, k) == \A i \in DOMAIN old : (i # k) => new[i] = old[i]

\* C15: writer separation. No step of the dispatcher changes HOLDING; a
\* dispatcher step changes COILS only when it handles an accepted 0x05
\* frame (not 0x01, 0x03, a dropped frame or one answered by the
\* exception frame), and then at most the addressed coil; the steps of the
\* Simulation Driver change no coil and no register but HOLDING[0];
\* set_coil changes no register and no coil but coil 0; no other step
\* changes the store.
C15_WriterSeparation ==
    [][/\ WorkerMoves => HOLDING' = HOLDING
       /\ (WorkerMoves /\ COILS' # COILS) =>
             /\ RequestAccepted(wframe) /\ wframe[2] = 5
             /\ SameExcept(COILS, COILS', Word(wframe, 3))
       /\ TickMoves => (COILS' = COILS /\ SameExcept(HOLDING, HOLDING', 0))
       /\ SetCoilMoves => (HOLDING' = HOLDING /\ SameExcept(COILS, COILS', 0))
       /\ (COILS' # COILS \/ HOLDING' # HOLDING) =>
             (WorkerMoves \/ TickMoves \/ SetCoilMoves)]_vars

\* the dispatcher has set coil 3 for a write-coil(3, on) request while the
\* Simulation Driver has counted to 1
C15_Witness ==
    /\ wpc = "release"
    /\ wframe = master_append_crc(WriteCoilFrame(UNIT_ID, 3, TRUE))
    /\ COILS[3] = 1
    /\ HOLDING[0] = 1

-----------------------------------------------------------------------------
(* The bytes a transaction reads *)

\* the response the slave writes for the request of call cl; for the calls
\* of MasterCalls it does not depend on the coils, and no register changes
\* while the master runs
OwnResponse(cl) ==
    Written(handle_request(master_append_crc(CallFrame(DEFAULT_SLAVE_ID, cl)),
                           COILS, HOLDING).out)

IsPrefixOf(s, t) == Len(s) <= Len(t) /\ SubSeq(t, 1, Len(s)) = s

\* resp = self.ser.read(256) returned to caller c in this step
ReadReturns(c) ==
    tpc[c] = "read" /\ tpc'[c] = "release" /\ tresp'[c].kind = "bytes"

\* C16: no stale bytes. The bytes that the read of a transaction returns
\* are bytes of the response to the request of that transaction (all of
\* it, as the line delivered it, or a leading part), never bytes of the
\* response to an earlier request.
C16_NoStaleBytes ==
    [][\A c \in Callers :
          ReadReturns(c) =>
             \E own \in {OwnResponse(tcall[c])} :
             \E got \in LineOutcomes(own) :
                IsPrefixOf(tresp'[c].bytes, got)]_vars

-----------------------------------------------------------------------------
(* Shutdown of the slave process: serial_worker's loop test and close,   *)
(* on_close, and the return of main()                                     *)

\* while not stop_event.is_set(): the test at the top of the loop
WorkerTest ==
    /\ wpc = "read"
    /\ wpc' = IF stop_event THEN "close" ELSE "in_read"
    /\ UNCHANGED <<COILS, HOLDING, LOCK, exchVars, uiVars, masterVars, appVars, sdev,
                   line, narrived, arrivals, handled, buffer, wframe, wout, written>>

\* chunk = ser.read(64) returns the k bytes that arrived within TIMEOUT,
\* none when it timed out; "if chunk: buffer.extend(chunk)"
WorkerBlockingRead(k) ==
    /\ wpc = "in_read"
    /\ sdev = "open"
    /\ k <= Len(line) /\ k <= ReadSize
    /\ buffer' = buffer \o SubSeq(line, 1, k)
    /\ line' = SubSeq(line, k + 1, Len(line))
    /\ wpc' = IF k = 0 THEN "read" ELSE "loop"
    /\ UNCHANGED <<COILS, HOLDING, LOCK, exchVars, uiVars, masterVars, appVars, sdev,
                   narrived, arrivals, handled, wframe, wout, written>>

\* after the loop: ser.close()
WorkerClose ==
    /\ wpc = "close"
    /\ sdev' = "closed"
    /\ wpc' = "exited"
    /\ UNCHANGED <<COILS, HOLDING, LOCK, exchVars, uiVars, masterVars, appVars,
                   line, narrived, arrivals, handled, buffer, wframe, wout, written>>

\* the steps of the dispatcher thread, which runs while the process does
ShutdownWorkerStep ==
    \/ running /\ WorkerTest
    \/ running /\ \E k \in {0, Len(line)} : WorkerBlockingRead(k)
    \/ running /\ WorkerLoop
    \/ running /\ WorkerHandle
    \/ running /\ WorkerAcquire
    \/ running /\ WorkerBody
    \/ running /\ WorkerRelease
    \/ running /\ WorkerRespond
    \/ running /\ WorkerClose

\* the window is closed: self.stop_event.set(); self.master.destroy()
on_close ==
    /\ upc = "idle"
    /\ running
    /\ stop_event' = TRUE
    /\ upc' = "destroyed"
    /\ UNCHANGED <<COILS, HOLDING, LOCK, exchVars, workerVars, masterVars, appVars,
                   uval, coil0, ucount, last_tick, now, running>>

\* root.mainloop() returns and main() returns: the process ends without
\* joining the worker, which is a daemon thread
MainReturns ==
    /\ upc = "destroyed"
    /\ running
    /\ running' = FALSE
    /\ UNCHANGED <<COILS, HOLDING, LOCK, exchVars, workerVars, masterVars, appVars,
                   upc, uval, coil0, ucount, last_tick, now, stop_event>>

\* the buttons of the window
ShutdownUiStep ==
    \/ \E val \in {0, 1} : SetCoilCall(val)
    \/ SetCoilAcquire
    \/ SetCoilBody
    \/ SetCoilRelease

NextShutdown ==
    \/ \E f \in SlaveRequests : Arrive(f)
    \/ ShutdownWorkerStep
    \/ ShutdownUiStep
    \/ on_close
    \/ MainReturns

ShutdownSpec == InitSlave /\ [][NextShutdown]_vars

\* while the process runs its threads are scheduled: a handler of the
\* window that has started finishes, and the dispatcher thread takes its
\* next step, getting LOCK at some time when it is free again and again
FairShutdownSpec ==
    /\ ShutdownSpec
    /\ SF_vars(ShutdownWorkerStep)
    /\ WF_vars(SetCoilAcquire \/ SetCoilBody \/ SetCoilRelease)

\* the dispatcher thread reads, handles a frame or writes in this step
WorkerUsesDevice ==
    \/ Len(line') < Len(line)
    \/ wframe' # wframe
    \/ written' # written
    \/ COILS' # COILS /\ wpc' # wpc

\* C17: cooperative shutdown of the slave. Once stop_event is set the
\* dispatcher loop observes it, exits and closes the serial device; the
\* device is closed only by the thread that has left the loop after seeing
\* the event set, is never closed while the loop runs, and after it is
\* closed nothing is read, no frame is handled and nothing is written.
C17_CooperativeShutdown ==
    /\ [](sdev = "closed" => wpc = "exited")
    /\ [][(sdev = "open" /\ sdev' = "closed") => (wpc = "close" /\ stop_event)]_vars
    /\ [][(wpc # "close" /\ wpc' = "close") => stop_event]_vars
    /\ [][sdev = "closed" => (sdev' = "closed" /\ wpc' = wpc /\ ~WorkerUsesDevice)]_vars
    /\ (stop_event ~> (sdev = "closed"))

\* the parts of C17 that hold, and the shutdown that holds when the
\* process is still there
ShutdownUnlessProcessEnds ==
    /\ [](sdev = "closed" => wpc = "exited")
    /\ [][(sdev = "open" /\ sdev' = "closed") => (wpc = "close" /\ stop_event)]_vars
    /\ [][(wpc # "close" /\ wpc' = "close") => stop_event]_vars
    /\ [][sdev = "closed" => (sdev' = "closed" /\ wpc' = wpc /\ ~WorkerUsesDevice)]_vars
    /\ (stop_event ~> (sdev = "closed" \/ ~running))

-----------------------------------------------------------------------------
(* MasterApp of Master_3.py: the Tk thread, the reader threads started by *)
(* connect, the thread started by a button, and the queue between them    *)

notApp == <<COILS, HOLDING, LOCK, exchVars, workerVars, uiVars, masterVars>>

\* while not self.stop_reader.is_set()
RdTest(r) ==
    /\ rdpc[r] = "test"
    /\ rdpc' = [rdpc EXCEPT ![r] = IF stop_reader THEN "done" ELSE "acquire"]
    /\ UNCHANGED <<notApp, client, connected, applock, inop, stop_reader, data_q,
                   rdval, apc, wkpc, nreads, lastput, taken, failures>>

\* with self.lock: if self.client: the read is called, else rr = None
RdAcquire(r) ==
    /\ rdpc[r] = "acquire"
    /\ applock = 0
    /\ applock' = r
    /\ IF client # "None"
       THEN /\ inop' = inop \cup {r}
            /\ rdpc' = [rdpc EXCEPT ![r] = "op"]
            /\ UNCHANGED rdval
       ELSE /\ rdval' = [rdval EXCEPT ![r] = ReadFailed("None")]
            /\ rdpc' = [rdpc EXCEPT ![r] = "release"]
            /\ UNCHANGED inop
    /\ UNCHANGED <<notApp, client, connected, stop_reader, data_q,
                   apc, wkpc, nreads, lastput, taken, failures>>

\* rr = self.client.read_holding_registers(0, 1, slave=SLAVE_ID) returns
\* the register, whose value differs from read to read, or returns no
\* value, or raises
RdRead(r, outcome) ==
    /\ rdpc[r] = "op"
    /\ inop' = inop \ {r}
    /\ rdpc' = [rdpc EXCEPT ![r] = "release"]
    /\ IF outcome = "value"
       THEN /\ nreads < MaxReads
            /\ nreads' = nreads + 1
            /\ rdval' = [rdval EXCEPT ![r] = ReadOk(nreads + 1)]
       ELSE /\ rdval' = [rdval EXCEPT ![r] = ReadFailed(outcome)]
            /\ UNCHANGED nreads
    /\ UNCHANGED <<notApp, client, connected, applock, stop_reader, data_q,
                   apc, wkpc, lastput, taken, failures>>

\* the end of "with self.lock"; an exception goes to "except Exception:
\* pass" and time.sleep(0.5)
RdRelease(r) ==
    /\ rdpc[r] = "release"
    /\ applock' = 0
    /\ rdpc' = [rdpc EXCEPT ![r] = IF rdval[r].err = "raise" THEN "test" ELSE "drain"]
    /\ UNCHANGED <<notApp, client, connected, inop, stop_reader, data_q,
                   rdval, apc, wkpc, nreads, lastput, taken, failures>>

\* while not self.data_q.empty(): self.data_q.get_nowait()
RdDrain(r) ==
    /\ rdpc[r] = "drain"
    /\ data_q' = << >>
    /\ rdpc' = [rdpc EXCEPT ![r] = "put"]
    /\ UNCHANGED <<notApp, client, connected, applock, inop, stop_reader,
                   rdval, apc, wkpc, nreads, lastput, taken, failures>>

\* self.data_q.put_nowait(val), "except queue.Full: pass", time.sleep(0.5)
RdPut(r) ==
    /\ rdpc[r] = "put"
    /\ data_q' = IF Len(data_q) < 1 THEN Append(data_q, rdval[r]) ELSE data_q
    /\ lastput' = rdval[r]
    /\ rdpc' = [rdpc EXCEPT ![r] = "test"]
    /\ UNCHANGED <<notApp, client, connected, applock, inop, stop_reader,
                   rdval, apc, wkpc, nreads, taken, failures>>

RdStep(r) ==
    \/ RdTest(r)
    \/ RdAcquire(r)
    \/ \E outcome \in {"value", "None", "raise"} : RdRead(r, outcome)
    \/ RdRelease(r)
    \/ RdDrain(r)
    \/ RdPut(r)

\* the connect button: self.client = ModbusSerialClient(...) and the call
\* of self.client.connect()
AppConnectCall ==
    /\ apc = "idle"
    /\ ~connected
    /\ \E r \in Readers : rdpc[r] = "off"
    /\ client' = "obj"
    /\ inop' = inop \cup {UiThread}
    /\ apc' = "connecting"
    /\ UNCHANGED <<notApp, connected, applock, stop_reader, data_q, rdpc, rdval,
                   wkpc, nreads, lastput, taken, failures>>

\* self.client.connect() returned ok: _set_connected(ok), and when ok
\* self.stop_reader.clear() and a new reader thread is started
AppConnectReturn(ok) ==
    /\ apc = "connecting"
    /\ inop' = inop \ {UiThread}
    /\ apc' = "idle"
    /\ connected' = ok
    /\ IF ok
       THEN /\ stop_reader' = FALSE
            /\ \E r \in Readers :
                  /\ rdpc[r] = "off"
                  /\ \A o \in Readers : rdpc[o] = "off" => r <= o
                  /\ rdpc' = [rdpc EXCEPT ![r] = "test"]
       ELSE UNCHANGED <<stop_reader, rdpc>>
    /\ UNCHANGED <<notApp, client, applock, data_q, rdval,
                   wkpc, nreads, lastput, taken, failures>>

\* the disconnect button or the closing window: self.stop_reader.set()
AppDisconnectCall ==
    /\ apc = "idle"
    /\ connected
    /\ stop_reader' = TRUE
    /\ apc' = "join"
    /\ UNCHANGED <<notApp, client, connected, applock, inop, data_q, rdpc, rdval,
                   wkpc, nreads, lastput, taken, failures>>

\* self.reader_thread.join(timeout=1.0) returns, the thread having ended
\* or not; self.client.close() is called
AppDisconnectClose ==
    /\ apc = "join"
    /\ inop' = inop \cup {UiThread}
    /\ apc' = "closing"
    /\ UNCHANGED <<notApp, client, connected, applock, stop_reader, data_q, rdpc,
                   rdval, wkpc, nreads, lastput, taken, failures>>

\* self.client.close() returned: self.client = None; _set_connected(False)
AppDisconnectReturn ==
    /\ apc = "closing"
    /\ inop' = inop \ {UiThread}
    /\ client' = "None"
    /\ connected' = FALSE
    /\ apc' = "idle"
    /\ UNCHANGED <<notApp, applock, stop_reader, data_q, rdpc, rdval,
                   wkpc, nreads, lastput, taken, failures>>

\* _poll_ui when the queue holds an item: val = self.data_q.get_nowait()
AppPoll ==
    /\ apc = "idle"
    /\ data_q # << >>
    /\ taken' = Head(data_q)
    /\ data_q' = Tail(data_q)
    /\ UNCHANGED <<notApp, client, connected, applock, inop, stop_reader, rdpc,
                   rdval, apc, wkpc, nreads, lastput, failures>>

\* write_coil or read_coil_once: a button starts a thread
AppButton ==
    /\ apc = "idle"
    /\ connected
    /\ client # "None"
    /\ wkpc = "off"
    /\ wkpc' = "acquire"
    /\ UNCHANGED <<notApp, client, connected, applock, inop, stop_reader, data_q,
                   rdpc, rdval, apc, nreads, lastput, taken, failures>>

\* _worker: with self.lock: self.client.write_coil(...) or read_coils(...);
\* with self.client None the call raises at once
WkAcquire ==
    /\ wkpc = "acquire"
    /\ applock = 0
    /\ applock' = ButtonThread
    /\ IF client # "None"
       THEN inop' = inop \cup {ButtonThread} /\ wkpc' = "op"
       ELSE UNCHANGED inop /\ wkpc' = "release"
    /\ UNCHANGED <<notApp, client, connected, stop_reader, data_q,
                   rdpc, rdval, apc, nreads, lastput, taken, failures>>

WkReturn ==
    /\ wkpc = "op"
    /\ inop' = inop \ {ButtonThread}
    /\ wkpc' = "release"
    /\ UNCHANGED <<notApp, client, connected, applock, stop_reader, data_q,
                   rdpc, rdval, apc, nreads, lastput, taken, failures>>

WkRelease ==
    /\ wkpc = "release"
    /\ applock' = 0
    /\ wkpc' = "off"
    /\ UNCHANGED <<notApp, client, connected, inop, stop_reader, data_q,
                   rdpc, rdval, apc, nreads, lastput, taken, failures>>

WkStep == WkAcquire \/ WkReturn \/ WkRelease

\* a handler of the Tk thread that has started goes on
AppHandlerStep ==
    \/ \E ok \in BOOLEAN : AppConnectReturn(ok)
    \/ AppDisconnectClose
    \/ AppDisconnectReturn

InitAppRun ==
    /\ COILS = CoilsOf({})
    /\ HOLDING = HoldingOf(0)
    /\ LOCK = FALSE
    /\ InitExchange
    /\ InitWorker
    /\ InitUi
    /\ InitMaster
    /\ InitApp

NextApp ==
    \/ AppConnectCall
    \/ AppDisconnectCall
    \/ AppPoll
    \/ AppButton
    \/ AppHandlerStep
    \/ \E r \in Readers : RdStep(r)
    \/ WkStep

AppSpec == InitAppRun /\ [][NextApp]_vars

\* the threads of the process are scheduled: a thread that can take a
\* step takes one, and the Tk timer keeps calling _poll_ui
FairAppSpec ==
    /\ AppSpec
    /\ WF_vars(\E r \in Readers : RdStep(r))
    /\ WF_vars(WkStep)
    /\ WF_vars(AppHandlerStep)
    /\ WF_vars(AppPoll)

-----------------------------------------------------------------------------
(* Properties of the hand-off between reader and Tk thread *)

\* a reader thread executes put_nowait in this step
PutBy(r) == rdpc[r] = "put" /\ rdpc'[r] # "put"

\* the poll of the Tk thread takes an item in this step
PollTakes == data_q # << >> /\ taken' = Head(data_q) /\ data_q' = Tail(data_q)
                /\ rdpc' = rdpc

\* C18: latest-value-wins hand-off. The queue never holds more than one
\* item, after a reader thread has put a result the queue holds exactly
\* that result, whatever was unread before, and the item a poll takes is
\* the result of the latest put.
C18_LatestValueWins ==
    /\ [](Len(data_q) <= 1)
    /\ [][\A r \in Readers : PutBy(r) => data_q' = <<rdval[r]>>]_vars
    /\ [][PollTakes => Head(data_q) = lastput]_vars

-----------------------------------------------------------------------------
(* Properties of the calls on the client object *)

\* every thread inside a call on the client object holds the client lock
CallsHoldLock == \A t \in inop : applock = t

\* no two threads are inside calls on the client object at the same time
NoConcurrentClientCalls == Cardinality(inop) <= 1

\* C19: client access is always lock-protected. Every call on the client
\* object (read_holding_registers, write_coil, read_coils, connect, close)
\* is executed by a thread that holds the client lock, so no two calls on
\* the client run at the same time.
C19_ClientLockProtected == [](CallsHoldLock /\ NoConcurrentClientCalls)

-----------------------------------------------------------------------------
(* MasterWindow of Master.py: the background reader with its failure      *)
(* count and reconnect, _poll_ui and _send. The reader is thread 1.       *)

BgPc == rdpc[1]
BgGoto(pc) == rdpc' = [rdpc EXCEPT ![1] = pc]
BgHolds(item) == rdval' = [rdval EXCEPT ![1] = item]

\* put_nowait(item) on the queue of maxsize 1: "except queue.Full: pass"
PutNowait(item) ==
    /\ data_q' = IF Len(data_q) < 1 THEN Append(data_q, item) ELSE data_q
    /\ lastput' = item

\* while not self._stop.is_set()
BgTest ==
    /\ BgPc = "test"
    /\ BgGoto(IF stop_reader THEN "done" ELSE "acquire")
    /\ UNCHANGED <<notApp, client, connected, applock, inop, stop_reader, data_q,
                   rdval, apc, wkpc, nreads, lastput, taken, failures>>

\* with self._client_lock: the read is called
BgAcquire ==
    /\ BgPc = "acquire"
    /\ applock = 0
    /\ applock' = 1
    /\ inop' = inop \cup {1}
    /\ BgGoto("op")
    /\ UNCHANGED <<notApp, client, connected, stop_reader, data_q,
                   rdval, apc, wkpc, nreads, lastput, taken, failures>>

\* resp = self.client.read_holding_registers(0, 1, slave=SLAVE_ID) and
\* the classification of resp into (val, err), or an exception
BgRead(outcome) ==
    /\ BgPc = "op"
    /\ (outcome \in {"timeout", "modbus_error"}) => failures < MaxFailures
    /\ inop' = inop \ {1}
    /\ applock' = 0
    /\ BgHolds(IF outcome = "value" THEN ReadOk(1) ELSE ReadFailed(outcome))
    /\ BgGoto(IF outcome = "raise" THEN "except" ELSE "drain")
    /\ UNCHANGED <<notApp, client, connected, stop_reader, data_q,
                   apc, wkpc, nreads, lastput, taken, failures>>

\* except Exception as e: self._q.put_nowait((None, 'exception:...'));
\* time.sleep(0.5)
BgExcept ==
    /\ BgPc = "except"
    /\ PutNowait(ReadFailed("exception"))
    /\ BgGoto("test")
    /\ UNCHANGED <<notApp, client, connected, applock, inop, stop_reader,
                   rdval, apc, wkpc, nreads, taken, failures>>

\* while not self._q.empty(): self._q.get_nowait()
BgDrain ==
    /\ BgPc = "drain"
    /\ data_q' = << >>
    /\ BgGoto("put")
    /\ UNCHANGED <<notApp, client, connected, applock, inop, stop_reader,
                   rdval, apc, wkpc, nreads, lastput, taken, failures>>

\* self._q.put_nowait((val, err))
BgPut ==
    /\ BgPc = "put"
    /\ PutNowait(rdval[1])
    /\ BgGoto("count")
    /\ UNCHANGED <<notApp, client, connected, applock, inop, stop_reader,
                   rdval, apc, wkpc, nreads, taken, failures>>

\* if val is not None: self._failures = 0; else: self._failures += 1 and
\* "if self._failures >= self._reconnect_after"; without a reconnect the
\* iteration ends with time.sleep(0.5)
BgCount ==
    /\ BgPc = "count"
    /\ IF rdval[1].ok
       THEN failures' = 0 /\ BgGoto("test")
       ELSE /\ failures' = failures + 1
            /\ BgGoto(IF failures + 1 >= ReconnectAfter THEN "rc_close" ELSE "test")
    /\ UNCHANGED <<notApp, client, connected, applock, inop, stop_reader, data_q,
                   rdval, apc, wkpc, nreads, lastput, taken>>

\* self.client.close(); time.sleep(0.4)
BgReconnectClose ==
    /\ BgPc = "rc_close"
    /\ BgGoto("rc_acquire")
    /\ UNCHANGED <<notApp, client, connected, applock, inop, stop_reader, data_q,
                   rdval, apc, wkpc, nreads, lastput, taken, failures>>

\* with self._client_lock:
BgReconnectAcquire ==
    /\ BgPc = "rc_acquire"
    /\ applock = 0
    /\ applock' = 1
    /\ inop' = inop \cup {1}
    /\ BgGoto("rc_connect")
    /\ UNCHANGED <<notApp, client, connected, stop_reader, data_q,
                   rdval, apc, wkpc, nreads, lastput, taken, failures>>

\* ok = self.client.connect(), ok = False when it raises
BgReconnectConnect(ok) ==
    /\ BgPc = "rc_connect"
    /\ inop' = inop \ {1}
    /\ applock' = 0
    /\ BgHolds(ReadFailed(IF ok THEN "reconnected" ELSE "disconnected"))
    /\ BgGoto("rc_report")
    /\ UNCHANGED <<notApp, client, connected, stop_reader, data_q,
                   apc, wkpc, nreads, lastput, taken, failures>>

\* if ok: self._failures = 0; put_nowait((None, 'reconnected')); else:
\* put_nowait((None, 'disconnected')); then time.sleep(0.5)
BgReconnectReport ==
    /\ BgPc = "rc_report"
    /\ failures' = IF rdval[1].err = "reconnected" THEN 0 ELSE failures
    /\ PutNowait(rdval[1])
    /\ BgGoto("test")
    /\ UNCHANGED <<notApp, client, connected, applock, inop, stop_reader,
                   rdval, apc, wkpc, nreads, taken>>

BgStep ==
    \/ BgTest
    \/ BgAcquire
    \/ \E outcome \in {"value", "timeout", "modbus_error", "raise"} : BgRead(outcome)
    \/ BgExcept
    \/ BgDrain
    \/ BgPut
    \/ BgCount
    \/ BgReconnectClose
    \/ BgReconnectAcquire
    \/ \E ok \in BOOLEAN : BgReconnectConnect(ok)
    \/ BgReconnectReport

\* _poll_ui when the queue holds an item: val, err = self._q.get_nowait()
WinPoll ==
    /\ apc = "idle"
    /\ data_q # << >>
    /\ taken' = Head(data_q)
    /\ data_q' = Tail(data_q)
    /\ UNCHANGED <<notApp, client, connected, applock, inop, stop_reader, rdpc,
                   rdval, apc, wkpc, nreads, lastput, failures>>

\* a Start or Stop button calls _send, which waits for the client lock in
\* the Tk thread
WinSendCall ==
    /\ apc = "idle"
    /\ apc' = "send_acquire"
    /\ UNCHANGED <<notApp, client, connected, applock, inop, stop_reader, data_q,
                   rdpc, rdval, wkpc, nreads, lastput, taken, failures>>

\* with self._client_lock: self.client.write_coil(0, state, slave=SLAVE_ID)
WinSendAcquire ==
    /\ apc = "send_acquire"
    /\ applock = 0
    /\ applock' = UiThread
    /\ inop' = inop \cup {UiThread}
    /\ apc' = "send_op"
    /\ UNCHANGED <<notApp, client, connected, stop_reader, data_q,
                   rdpc, rdval, wkpc, nreads, lastput, taken, failures>>

WinSendReturn ==
    /\ apc = "send_op"
    /\ inop' = inop \ {UiThread}
    /\ applock' = 0
    /\ apc' = "idle"
    /\ UNCHANGED <<notApp, client, connected, stop_reader, data_q,
                   rdpc, rdval, wkpc, nreads, lastput, taken, failures>>

\* MasterWindow.__init__: the client is created and connect() called, the
\* reader thread is started
InitWindow ==
    /\ client = "obj"
    /\ connected \in BOOLEAN
    /\ applock = 0
    /\ inop = {}
    /\ stop_reader = FALSE
    /\ data_q = << >>
    /\ rdpc = [r \in Readers |-> IF r = 1 THEN "test" ELSE "off"]
    /\ rdval = [r \in Readers |-> NoItem]
    /\ apc = "idle"
    /\ wkpc = "off"
    /\ nreads = 0
    /\ lastput = NoItem
    /\ taken = NoItem
    /\ failures = 0

InitWindowRun ==
    /\ COILS = CoilsOf({})
    /\ HOLDING = HoldingOf(0)
    /\ LOCK = FALSE
    /\ InitExchange
    /\ InitWorker
    /\ InitUi
    /\ InitMaster
    /\ InitWindow

NextWindow ==
    \/ BgStep
    \/ WinPoll
    \/ WinSendCall
    \/ WinSendAcquire
    \/ WinSendReturn

WindowSpec == InitWindowRun /\ [][NextWindow]_vars

\* the reader thread and the Tk thread are scheduled, and the Tk timer
\* calls _poll_ui every 700 ms
FairWindowSpec ==
    /\ WindowSpec
    /\ WF_vars(BgStep)
    /\ WF_vars(WinSendAcquire \/ WinSendReturn)
    /\ WF_vars(WinPoll)

-----------------------------------------------------------------------------
(* Properties of the automatic reconnect *)

\* the reader finishes "if val is not None ... else ..." in this step
Counts == BgPc = "count" /\ rdpc'[1] # "count"

\* the reader starts a reconnect attempt in this step
StartsReconnect == BgPc # "rc_close" /\ rdpc'[1] = "rc_close"

\* the reader reports the outcome of a reconnect attempt in this step
Reports == BgPc = "rc_report" /\ rdpc'[1] # "rc_report"

ReconnectOutcomes == {"reconnected", "disconnected"}

\* C20: automatic reconnect in Master.py. The reader starts a reconnect
\* attempt exactly in the iterations whose read failed and brought
\* _failures to the threshold or above; _failures is set to 0 by every
\* read that returned a value and by every successful reconnect and is
\* otherwise only incremented by 1; the outcome of every attempt is put in
\* the queue, and the poll of the Tk thread eventually takes it.
C20_AutomaticReconnect ==
    /\ [][StartsReconnect <=>
            (Counts /\ ~rdval[1].ok /\ failures' >= ReconnectAfter)]_vars
    /\ [][(Counts /\ rdval[1].ok) => failures' = 0]_vars
    /\ [][(Reports /\ rdval[1].err = "reconnected") => failures' = 0]_vars
    /\ [][failures' # failures => (failures' = 0 \/ failures' = failures + 1)]_vars
    /\ [][Reports => (rdval[1].err \in ReconnectOutcomes /\ lastput' = rdval[1])]_vars
    /\ \A o \in ReconnectOutcomes :
          (lastput = ReadFailed(o)) ~> (taken = ReadFailed(o))

\* the parts of C20 about the failure count and the attempts
ReconnectCounting ==
    /\ [][StartsReconnect <=>
            (Counts /\ ~rdval[1].ok /\ failures' >= ReconnectAfter)]_vars
    /\ [][(Counts /\ rdval[1].ok) => failures' = 0]_vars
    /\ [][(Reports /\ rdval[1].err = "reconnected") => failures' = 0]_vars
    /\ [][failures' # failures => (failures' = 0 \/ failures' = failures + 1)]_vars
    /\ [][Reports => (rdval[1].err \in ReconnectOutcomes /\ lastput' = rdval[1])]_vars

-----------------------------------------------------------------------------
(* Properties of a single operation of ModbusMaster *)

\* the order of the statements of an operation: no statement of _transact
\* is reached a second time within one call
OperationMoves ==
    { <<"idle", "acquire">>, <<"acquire", "reset">>, <<"reset", "write">>,
      <<"write", "read">>, <<"read", "release">>, <<"reset", "release">>,
      <<"write", "release">>, <<"release", "check">>, <<"release", "idle">>,
      <<"check", "idle">> }

\* the failure value of the operations, as their callers see it
IsFailureValue(op, r) == r = IF op = "write_coil" THEN RetBool(FALSE) ELSE RetNone

\* caller c leaves _transact's "with" block in this step
LeavesExchange(c) == tpc[c] # "release" /\ tpc'[c] = "release"

\* caller c returns from its operation in this step
OperationReturns(c) == tpc[c] \in {"release", "check"} /\ tpc'[c] = "idle"

\* an operation is called on a master without serial handle in this step
CalledUnconnected == ncalls' # ncalls /\ ser = "None"

\* C21 as stated: every operation on a connected master leaves the
\* exchange after its read, having written one frame and read once.
C21_ExactlyOneWriteOneRead ==
    [][\A c \in Callers : LeavesExchange(c) => tpc[c] = "read"]_vars

\* C21: no retry. An operation on a connected master goes once through
\* clear-input, write and read: it writes at most one request frame and
\* reads at most once, exactly one of each unless a call on the serial
\* handle raises, which ends the exchange at once; bytes are put on the
\* line only by the write step and taken from the input buffer only by the
\* clear-input and read steps; a response that is missing, too short or
\* has a wrong CRC, and a raised exception, make the operation return its
\* failure value; no step of an operation changes the serial handle (no
\* reconnect); an operation called without serial handle returns the
\* failure value without any serial I/O.
C21_NoRetry ==
    /\ [][\A c \in Callers :
            /\ tpc'[c] # tpc[c] => <<tpc[c], tpc'[c]>> \in OperationMoves
            /\ (LeavesExchange(c) /\ tpc[c] # "read") => tresp'[c] = Raised
            /\ (OperationReturns(c) /\ tpc[c] = "release") =>
                   IsFailureValue(tcall[c].op, tret'[c])
            /\ (OperationReturns(c) /\ tpc[c] = "check"
                  /\ TransactCheck(tresp[c].bytes, MinRespLen) = None) =>
                   IsFailureValue(tcall[c].op, tret'[c])
            /\ tpc'[c] # tpc[c] => ser' = ser]_vars
    /\ [][/\ pending' # pending =>
               \/ \E c \in Callers : tpc[c] = "write" /\ tpc'[c] = "read"
               \/ pending' = << >> /\ rxbuf' = rxbuf \o pending
          /\ (rxbuf' # rxbuf /\ pending' = pending) =>
               \E c \in Callers : tpc[c] \in {"reset", "read"} /\ tpc'[c] # tpc[c]
          /\ COILS' # COILS => \E c \in Callers : tpc[c] = "write" /\ tpc'[c] = "read"]_vars
    /\ [][CalledUnconnected =>
            /\ tpc' = tpc /\ ser' = ser
            /\ UNCHANGED <<pending, rxbuf, COILS, HOLDING, mlock>>
            /\ \E c \in Callers, cl \in MasterCalls :
                  /\ IsFailureValue(cl.op, tret'[c])
                  /\ \A d \in Callers \ {c} : tret'[d] = tret[d]]_vars

\* a write_coil on a connected master has written its one request, which
\* the slave applied, has read nothing before the timeout, and has
\* returned False while the response is still on its way
C21_Witness ==
    /\ ser = "open"
    /\ ncalls = 1
    /\ COILS[0] = 1
    /\ pending = master_append_crc(WriteCoilFrame(DEFAULT_SLAVE_ID, 0, TRUE))
    /\ \E c \in Callers : tpc[c] = "idle" /\ tret[c] = RetBool(FALSE)
    /\ \A c \in Callers : tpc[c] = "idle"

-----------------------------------------------------------------------------
(* The CRC engine applied to byte strings: req holds the input, tx the     *)
(* result of append_crc, phase which copy produced it                      *)

CrcBytes == {0, 1, 128, 255}

\* every string over CrcBytes up to MaxCrcLen bytes, and the bodies of two
\* requests of MasterUI
CrcInputs ==
    UNION { [1..n -> CrcBytes] : n \in 0..MaxCrcLen }
        \cup { WriteCoilFrame(DEFAULT_SLAVE_ID, 0, TRUE),
               ReadHoldingFrame(DEFAULT_SLAVE_ID, 0, 1) }

InitCrc ==
    /\ COILS = CoilsOf({})
    /\ HOLDING = HoldingOf(0)
    /\ LOCK = FALSE
    /\ phase = "idle"
    /\ call = NoCall
    /\ req \in CrcInputs
    /\ resp = None
    /\ tx = << >>
    /\ ret = RetNone
    /\ InitWorker
    /\ InitUi
    /\ InitMaster
    /\ InitApp

\* Master_5.append_crc(req)
MasterAppendsCrc ==
    /\ phase = "idle"
    /\ tx' = master_append_crc(req)
    /\ phase' = "master"
    /\ UNCHANGED <<COILS, HOLDING, LOCK, call, req, resp, ret,
                   workerVars, masterVars, appVars, uiVars>>

\* Slave_5.append_crc(req)
SlaveAppendsCrc ==
    /\ phase = "idle"
    /\ tx' = slave_append_crc(req)
    /\ phase' = "slave"
    /\ UNCHANGED <<COILS, HOLDING, LOCK, call, req, resp, ret,
                   workerVars, masterVars, appVars, uiVars>>

NextCrc == MasterAppendsCrc \/ SlaveAppendsCrc

CrcSpec == InitCrc /\ [][NextCrc]_vars

\* the stated algorithm: one pass is "shift right, XOR 0xA001 when the bit
\* shifted out is 1"
StatedPass(crc) ==
    LET pass[c \in 0..65535] ==
            IF c % 2 = 1 THEN Xor(c \div 2, 40961) ELSE c \div 2
    IN  pass[crc]

StatedShifts(crc) ==
    StatedPass(StatedPass(StatedPass(StatedPass(
        StatedPass(StatedPass(StatedPass(StatedPass(crc))))))))

\* ... accumulator 0xFFFF, every byte XORed into the low byte, then 8 passes
\* over the first n bytes of b
StatedCrc(b, n) ==
    LET shifted[k \in 0..65535] == StatedShifts(k)
        mixed[c \in 0..65535, x \in 0..255] == shifted[Xor(c, x)]
        run[a \in {<<b, n>>}] ==
            LET after[i \in 0..a[2]] ==
                    IF i = 0 THEN 65535 ELSE mixed[after[i - 1], a[1][i]]
            IN  after[a[2]]
    IN  run[<<b, n>>]

\* C22: CRC round-trip. For every byte string b, crc16(b) of either copy
\* is the value of the stated algorithm and lies in 0..0xFFFF, the two
\* copies agree, append_crc(b) of either copy is b followed by lo, hi with
\* lo + 256*hi = crc16(b), and the appended frame passes the CRC check of
\* the master's response validation and of the slave's request validation;
\* 01 05 00 00 FF 00 gets 8C 3A and 01 03 00 00 00 01 gets 84 0A.
C22_CrcRoundTrip ==
    phase \in {"master", "slave"} =>
        \E crc \in {StatedCrc(req, Len(req))} :
            /\ crc \in 0..65535
            /\ master_crc16_modbus(req) = crc
            /\ slave_crc16_modbus(req) = crc
            /\ Len(tx) = Len(req) + 2
            /\ SubSeq(tx, 1, Len(req)) = req
            /\ tx[Len(tx) - 1] + 256 * tx[Len(tx)] = crc
            /\ tx[Len(tx) - 1] \in 0..255 /\ tx[Len(tx)] \in 0..255
            /\ MasterCrcOk(tx)
            /\ SlaveCrcOk(tx)
            /\ (req = <<1, 5, 0, 0, 255, 0>>) => (tx[7] = 140 /\ tx[8] = 58)
            /\ (req = <<1, 3, 0, 0, 0, 1>>) => (tx[7] = 132 /\ tx[8] = 10)

\* the slave's append_crc was applied to the body of write-coil(0, on)
C22_Witness ==
    /\ phase = "slave"
    /\ req = <<1, 5, 0, 0, 255, 0>>
    /\ tx = <<1, 5, 0, 0, 255, 0, 140, 58>>

-----------------------------------------------------------------------------
(* Properties of the frames on the serial link *)

\* an operation of the master writes its request in this step
MasterWrites == phase = "idle" /\ phase' = "sent" /\ call'.op # "none"

\* the trailing two bytes are the little-endian CRC16 of the bytes before
CrcTrailer(f) ==
    /\ Len(f) >= 2
    /\ f[Len(f) - 1] + 256 * f[Len(f)] = StatedCrc(f, Len(f) - 2)

\* [unit][0x05|0x01|0x03][address hi, lo][value or quantity hi, lo][crc]
\* for the call cl
WellFormedRequest(f, cl) ==
    /\ Len(f) = 8
    /\ \A i \in 1..8 : f[i] \in 0..255
    /\ f[1] = DEFAULT_SLAVE_ID
    /\ f[2] = (IF cl.op = "write_coil" THEN 5 ELSE IF cl.op = "read_coils" THEN 1 ELSE 3)
    /\ 256 * f[3] + f[4] = cl.address
    /\ IF cl.op = "write_coil"
       THEN <<f[5], f[6]>> = (IF cl.arg = 1 THEN <<255, 0>> ELSE <<0, 0>>)
       ELSE 256 * f[5] + f[6] = cl.arg
    /\ CrcTrailer(f)

\* C23: wire-frame invariant. Every request the master writes is 8 bytes
\* [unit][0x05|0x01|0x03][address hi, lo][value or quantity hi, lo]
\* [crc lo, hi], the value word of a write being 0xFF00 or 0x0000; every
\* response the slave writes starts with the configured unit id; in both
\* directions the trailing two bytes are the little-endian CRC16 of all
\* preceding bytes.
C23_WireFrames ==
    [][/\ MasterWrites => WellFormedRequest(req', call')
       /\ (DispatchStep /\ tx' # << >>) =>
             /\ Len(tx') >= 5
             /\ \A i \in 1..Len(tx') : tx'[i] \in 0..255
             /\ tx'[1] = UNIT_ID
             /\ CrcTrailer(tx')]_vars

\* write_coil(3, on) went out as 01 05 00 03 FF 00 + CRC and the slave
\* wrote the same eight bytes back
C23_Witness ==
    /\ phase = "handled"
    /\ call = [op |-> "write_coil", address |-> 3, arg |-> 1]
    /\ SubSeq(req, 1, 6) = <<1, 5, 0, 3, 255, 0>>
    /\ tx = req

-----------------------------------------------------------------------------
(* The slave after a long run *)

\* values of self._count at which the run is picked up: a fresh start, and
\* 65535 increments made while coil 0 was on
LongRunCounts == {0, 65535}

\* the slave between two timer callbacks after c increments, its clock
\* measured from the last increment
InitLongRun ==
    /\ \E c \in LongRunCounts :
           /\ ucount = c
           /\ HOLDING = HoldingOf(c)
           /\ COILS = CoilsOf(IF c = 0 THEN {} ELSE {0})
    /\ LOCK = FALSE
    /\ InitExchange
    /\ InitWorker
    /\ upc = "idle" /\ uval = 0 /\ coil0 = 0 /\ last_tick = 0 /\ now = 0
    /\ stop_event = FALSE /\ running = TRUE
    /\ InitMaster
    /\ InitApp

LongRunSlaveSpec == InitLongRun /\ [][NextSlave]_vars

\* C24: register value ranges. In every state of the slave each coil is 0
\* or 1 and each holding register is in 0..65535, also after more than
\* 65535 increments of the counter, and the registers a read-holding
\* response carries equal the stored ones.
C24_RegisterRanges ==
    /\ \A i \in 0..(NumCoils - 1) : COILS[i] \in {0, 1}
    /\ \A i \in 0..(NumHolding - 1) : HOLDING[i] \in 0..65535
    /\ (wpc = "release" /\ wframe[2] = 3 /\ wout.kind = "bytes") =>
           DecodeRegs(BSlice(wout.bytes, 3, 3 + wout.bytes[3]))
               = Slice(HOLDING, NumHolding, UnpackBE(BSlice(wframe, 2, 4)),
                       UnpackBE(BSlice(wframe, 2, 4)) + UnpackBE(BSlice(wframe, 4, 6)))

\* the parts of C24 that do not depend on the counter's size
C24_CoilsBinary ==
    /\ \A i \in 0..(NumCoils - 1) : COILS[i] \in {0, 1}
    /\ \A i \in 1..(NumHolding - 1) : HOLDING[i] = 0
    /\ HOLDING[0] \in Nat

\* a read-holding response built while HOLDING[0] = 65536 carries 0
C24_Wrapped ==
    /\ wpc = "release" /\ wframe[2] = 3 /\ wout.kind = "bytes"
    /\ HOLDING[0] = 65536
    /\ SubSeq(wout.bytes, 1, 5) = <<UNIT_ID, 3, 2, 0, 0>>

-----------------------------------------------------------------------------
(* The dispatcher on a byte stream split arbitrarily across serial reads *)

MaxArrivals == 3

\* a request that is answered and one whose handling raises (read coils
\* 15..16 runs past the store)
StreamFrames ==
    { master_append_crc(WriteCoilFrame(UNIT_ID, 0, TRUE)),
      master_append_crc(ReadCoilsFrame(UNIT_ID, 15, 2)) }

\* what the line delivers of a frame: the frame, the frame after a stray
\* byte, or the frame without its first byte
Delivered(f, damage) ==
    IF damage = "extra" THEN <<0>> \o f
    ELSE IF damage = "dropped" THEN SubSeq(f, 2, Len(f))
    ELSE f

\* the master's next request reaches the serial device; the line damages
\* at most one request of a run
StreamArrive(f, damage) ==
    /\ Len(arrivals) < MaxArrivals
    /\ damage # "none" => \A i \in 1..Len(arrivals) : arrivals[i].intact
    /\ line' = line \o Delivered(f, damage)
    /\ narrived' = narrived + 1
    /\ arrivals' = Append(arrivals, [bytes |-> Delivered(f, damage),
                                     intact |-> (damage = "none")])
    /\ UNCHANGED <<COILS, HOLDING, LOCK, exchVars, uiVars, masterVars, appVars, sdev,
                   wpc, handled, buffer, wframe, wout, written>>

\* ser.read(64) returns any non-empty prefix of what has arrived
StreamRead == \E k \in 1..Len(line) : WorkerRead(k)

NextStream ==
    \/ \E f \in StreamFrames, damage \in {"none", "extra", "dropped"} :
           StreamArrive(f, damage)
    \/ StreamRead
    \/ WorkerLoop
    \/ WorkerHandle
    \/ WorkerAcquire
    \/ WorkerBody
    \/ WorkerRelease
    \/ WorkerRespond

StreamSpec == InitSlave /\ [][NextStream]_vars

RECURSIVE ArrivedUpTo(_, _)
ArrivedUpTo(arr, n) ==
    IF n = 0 THEN << >> ELSE ArrivedUpTo(arr, n - 1) \o arr[n].bytes

\* the received stream: what the serial reads have returned so far
Received ==
    LET all == ArrivedUpTo(arrivals, Len(arrivals))
    IN  SubSeq(all, 1, Len(all) - Len(line))

\* the k-th 8-byte block of a stream, k = 1, 2, ...
Block(stream, k) == SubSeq(stream, ReqLen * (k - 1) + 1, ReqLen * k)

InHandling == wpc \in {"handle", "acquire", "body", "release", "respond"}

\* C25: fixed-8-byte reassembly. However the stream is split across reads,
\* the frames handled are the consecutive 8-byte blocks of the received
\* stream, each once and in order, no byte skipped or duplicated; the
\* response to a frame is written before the next frame is handled, so the
\* responses are in request order.
C25_FixedReassembly ==
    /\ [](\E got \in {Received} :
             /\ Len(got) = ReqLen * Len(handled) + Len(buffer)
             /\ \A k \in 1..Len(handled) : handled[k] = Block(got, k)
             /\ buffer = SubSeq(got, ReqLen * Len(handled) + 1, Len(got))
             /\ Len(buffer) >= ReqLen => Block(got, Len(handled) + 1) = SubSeq(buffer, 1, ReqLen)
             /\ InHandling => wframe = handled[Len(handled)]
             /\ ~InHandling => wout = None
             /\ Len(written) <= Len(handled))
    /\ [][/\ handled' # handled =>
                /\ ~InHandling
                /\ handled' = Append(handled, Block(Received, Len(handled) + 1))
          /\ written' # written =>
                /\ wpc = "respond" /\ Truthy(wout)
                /\ written' = Append(written, wout.bytes)
                /\ wout = handle_request(handled[Len(handled)], COILS, HOLDING).out
                /\ handled' = handled]_vars

\* the first request was handled and answered; of the second, read in
\* chunks that cut through it, three bytes are buffered and five not yet read
C25_Witness ==
    /\ Len(handled) = 1
    /\ handled[1] = master_append_crc(WriteCoilFrame(UNIT_ID, 0, TRUE))
    /\ written = handled
    /\ Len(buffer) = 3
    /\ Len(line) = 5
    /\ buffer \o line = handled[1]

\* offset in the arrived stream at which the i-th arrival starts
StartOf(i) == Len(ArrivedUpTo(arrivals, i - 1))

\* a request the line delivered whole, after an earlier one it damaged
Misaligned(i) ==
    /\ arrivals[i].intact
    /\ \E j \in 1..(i - 1) : ~arrivals[j].intact

\* C26: no resynchronization. The dispatcher's frame boundaries stay at
\* multiples of 8 bytes from the start of the received stream; after a
\* single extra or dropped byte every later request lies across two
\* candidate frames and is never extracted aligned; no dispatcher step
\* discards or re-aligns buffered bytes.
C26_NoResync ==
    /\ [](/\ ReqLen * Len(handled) + Len(buffer) = Len(Received)
          /\ \A i \in 1..Len(arrivals) :
                Misaligned(i) =>
                    \E p \in {StartOf(i)} :
                        /\ p % ReqLen # 0
                        /\ \A k \in 1..Len(handled) :
                              /\ ReqLen * (k - 1) # p
                              /\ Block(Received, k) = handled[k]
                        /\ Len(handled) >= (p \div ReqLen) + 2 =>
                              SubSeq(handled[(p \div ReqLen) + 1], (p % ReqLen) + 1, ReqLen)
                                  \o SubSeq(handled[(p \div ReqLen) + 2], 1, p % ReqLen)
                              = arrivals[i].bytes)
    /\ [][buffer' # buffer =>
             \/ /\ wpc = "read"
                /\ handled' = handled
                /\ buffer' \o line' = buffer \o line
                /\ IsPrefixOf(buffer, buffer')
             \/ /\ wpc = "loop"
                /\ handled' = Append(handled, SubSeq(buffer, 1, ReqLen))
                /\ SubSeq(buffer, 1, ReqLen) \o buffer' = buffer
                /\ line' = line]_vars

\* a stray byte, then two write-coil requests: 3 candidate frames have been
\* handled, none is a request, the second request lies across frames 2 and
\* 3, and nothing has been answered
C26_Witness ==
    /\ Len(arrivals) = 3
    /\ ~arrivals[1].intact /\ Len(arrivals[1].bytes) = ReqLen + 1
    /\ arrivals[2].bytes = master_append_crc(WriteCoilFrame(UNIT_ID, 0, TRUE))
    /\ arrivals[3].bytes = arrivals[2].bytes
    /\ Len(handled) = 3
    /\ \A k \in 1..3 : handled[k] # arrivals[2].bytes
    /\ SubSeq(handled[2], 2, ReqLen) \o SubSeq(handled[3], 1, 1) = arrivals[2].bytes
    /\ written = << >>
    /\ wpc = "read"

\* C27: dispatcher buffer drain. Whenever the dispatcher goes back to
\* reading the serial device its buffer holds fewer than 8 bytes, also
\* when the handling of an earlier frame of the same chunk failed.
C27_BufferDrained == wpc = "read" => Len(buffer) < ReqLen

\* after a handling that returned (a response or None), the buffer is
\* drained before the next read
C27_DrainedUnlessRaised ==
    [][(wpc # "read" /\ wpc' = "read" /\ wout.kind # "raise")
           => Len(buffer') < ReqLen]_vars

\* one chunk brought a read-coils request for coils 15..16 and a write-coil
\* request; the first raised, and the second waits in the buffer while the
\* dispatcher reads again
C27_LeftWaiting ==
    /\ wpc = "read"
    /\ line = << >>
    /\ handled = << master_append_crc(ReadCoilsFrame(UNIT_ID, 15, 2)) >>
    /\ buffer = master_append_crc(WriteCoilFrame(UNIT_ID, 0, TRUE))
    /\ COILS[0] = 0
    /\ written = << >>

-----------------------------------------------------------------------------
(* Reader threads of Master_3.py across connect and disconnect *)

\* the reader threads that have been started and have not left their loop
LiveReaders == { r \in Readers : rdpc[r] \notin {"off", "done"} }

\* C28: single poller. Across any sequence of connect and disconnect
\* actions at most one _reader_loop thread is polling the client; a reader
\* that was still running when disconnect's join timed out does not go on
\* polling after a later connect has cleared the stop event.
C28_SinglePoller == Cardinality(LiveReaders) <= 1

\* the first reader is inside read_holding_registers, reconnected, while
\* the reader started by the second connect polls too
C28_TwoPollers ==
    /\ rdpc[1] = "op"
    /\ rdpc[2] \in {"drain", "put"}
    /\ connected /\ apc = "idle"
    /\ ~stop_reader

\* no reader is started while another is live, unless by a connect that
\* follows a disconnect whose join did not wait for the reader's end
C28_StartedByConnect ==
    [][LiveReaders' # LiveReaders =>
          \/ Cardinality(LiveReaders') < Cardinality(LiveReaders)
          \/ apc = "connecting" /\ apc' = "idle" /\ connected']_vars

-----------------------------------------------------------------------------
(* Write-coil requests for addresses inside and outside the store *)

\* write_coil is called with any 16-bit address; MasterUI uses 0
NextWriteAck ==
    \/ \E a \in (0..MaxAddress) \cup FarAddresses, v \in BOOLEAN : write_coil(a, v)
    \/ Dispatch
    \/ Receive

WriteAckSpec == Init /\ [][NextWriteAck]_vars

\* the slave has written the success echo of the master's write-coil
EchoWritten ==
    /\ call.op = "write_coil"
    /\ phase \in {"handled", "done"}
    /\ tx = req

\* C29: write-coil acknowledgement matches the store. Whenever the slave
\* returns the success echo for a 0x05 request, and write_coil therefore
\* returns True, the addressed coil holds the requested value; a request
\* for an address outside the store (>= 16) is not acknowledged as a
\* success.
C29_AckMatchesStore ==
    /\ EchoWritten =>
          /\ call.address < NumCoils
          /\ COILS[call.address] = call.arg
    /\ (call.op = "write_coil" /\ phase = "done" /\ ret = RetBool(TRUE)) =>
          call.address < NumCoils

\* the acknowledgement is right for addresses in the store, and a request
\* for an address outside it changes no coil and no holding register
C29_InsideStore ==
    /\ []((EchoWritten /\ call.address < NumCoils) => COILS[call.address] = call.arg)
    /\ [][(DispatchStep /\ call.op = "write_coil" /\ call.address >= NumCoils)
             => StoreUnchanged]_vars

\* write_coil(17, on) has returned True on the slave's echo, no coil set
C29_FalseAck ==
    /\ phase = "done"
    /\ call = [op |-> "write_coil", address |-> 17, arg |-> 1]
    /\ ret = RetBool(TRUE)
    /\ tx = req
    /\ COILS = CoilsOf({})

-----------------------------------------------------------------------------
(* HOLDING[0] and the Simulation Driver's counter *)

\* the driver has incremented self._count and not yet stored it
IncrementPending == upc \in {"write_acquire", "write_body"}

\* C30 as stated: in every reachable state HOLDING[0] equals the counter
\* value at the driver's last increment.
C30_EqualsCounter == HOLDING[0] = ucount

\* C30: counter monotonicity. HOLDING[0] starts at 0, is at most the
\* driver's counter, and equals it except from an increment to the store
\* that follows it, where it is the counter less one; it never decreases
\* and changes only by +1, once per increment; HOLDING[1..15] stay 0.
C30_CounterMonotone ==
    /\ (HOLDING[0] = 0 /\ ucount = 0)
    /\ [](/\ HOLDING[0] <= ucount
          /\ IncrementPending => HOLDING[0] = ucount - 1
          /\ ~IncrementPending => HOLDING[0] = ucount
          /\ \A i \in 1..(NumHolding - 1) : HOLDING[i] = 0)
    /\ [][/\ HOLDING'[0] >= HOLDING[0]
          /\ HOLDING'[0] # HOLDING[0] =>
                /\ HOLDING'[0] = HOLDING[0] + 1
                /\ IncrementPending /\ ~IncrementPending'
                /\ ucount' = ucount
          /\ ucount' # ucount =>
                /\ ucount' = ucount + 1
                /\ ~IncrementPending /\ IncrementPending'
                /\ HOLDING' = HOLDING]_vars

\* the second increment is made and waits for the lock, which the
\* dispatcher holds for a read-holding request: HOLDING[0] is still 1
C30_Witness ==
    /\ ucount = 2
    /\ HOLDING[0] = 1
    /\ upc = "write_acquire"
    /\ LOCK
    /\ wpc = "release"
    /\ wframe[2] = 3
    /\ SubSeq(wout.bytes, 4, 5) = <<0, 1>>

====
